---- MODULE Spec2Model ----
(***************************************************************************)
(* Regupulse: the regulatory-news scanning function (scan handler,        *)
(* fetchWithRetry, deduplicateItems, source-health upsert, relevance       *)
(* pre-filter) modelled as state machines.                                 *)
(*                                                                         *)
(* Strings are sequences of one-character strings, so that toLowerCase,    *)
(* trim, includes and parseInt are computed, not assumed.                  *)
(***************************************************************************)
EXTENDS Integers, Sequences, FiniteSets, TLC

VARIABLES
  \* ---- fetchWithRetry (one invocation) ----
  fpc,          \* position: "try" | "wait429" | "backoff" | "returned" | "thrown"
  maxRetries,   \* the maxRetries argument
  attempt,      \* the loop variable
  lastError,    \* the lastError local
  timer,        \* duration (ms) of the pending setTimeout
  now,          \* wall clock, ms
  result,       \* the returned object
  sentAt,       \* history: time at which each request was issued
  responses,    \* history: outcome of each request, with its arrival time
  waits,        \* history: duration handed to setTimeout after each request (NoWait if none)
  \* ---- deduplicateItems (one invocation) ----
  dpc,          \* "call" | "done" | "again"
  dItems,       \* the items argument
  dExisting,    \* what RegulatoryUpdate.filter({}) returns
  dBatch,       \* the batchDeduped local
  dOut,         \* the returned list
  \* ---- the scan handler: source health (per invocation slot where local) ----
  healthStore,  \* the SourceHealth entity store; a record's id is its index
  sourceHealthUpdates, \* the sourceHealthUpdates array
  hTask,        \* one health-update task per entry of sourceHealthUpdates
  hOutcome,     \* history: per source, what the fetch task and the health task did
  failStreak,   \* history: per source, length of the current run of failing scans
  hStoreFailed, \* history: number of SourceHealth calls that have thrown
  \* ---- the scan handler: pipeline; one entry per handler invocation slot ----
  pc,           \* position of the invocation in the handler ("idle": none running)
  allItems,     \* the allItems local
  feedContent,  \* the items rendered into the feedContent string
  relevanceRules, \* the relevanceRules local
  updates,      \* analysisResult.updates
  existingTitlesForSave, existingUrlsForSave,  \* the sets built by the final re-query
  savedTitlesThisBatch, savedUrlsThisBatch,    \* the sets of the persist loop
  idx,          \* the persist loop's i, counted from 1
  errors,       \* the errors array
  response,     \* the last response of the slot
  updateStore,  \* the RegulatoryUpdate entity store, in creation order
  ruleStore,    \* the RelevanceRule entity store; a rule's id is its index
  pendingRuleUpdates, \* RelevanceRule.update calls issued and not yet applied
  runs,         \* number of invocations started so far
  \* history, per slot:
  runId,        \* which invocation the slot is running
  knownAtStart, \* the fetched items an earlier scan had persisted when the scan began
  requeryLen,   \* number of store records when the final re-query ran
  savedUpdates, \* the savedUpdates array
  createdBy,    \* for each store record, the invocation that created it
  queryFailed,  \* some RegulatoryUpdate.filter call has thrown
  faults,       \* number of RegulatoryUpdate, RelevanceRule and InvokeLLM calls that threw
  \* ---- the scan handler: tasks joined by the handler, per slot ----
  enrichTasks,  \* history: the enrichment tasks started, each with how its page fetch went
  llmCalls,     \* history: number of primary classification calls made
  analysisResults, \* per update "pending", "analysed" (an object) or "null"
  analysisOrder,   \* history: the indices of the awaited secondary analyses as they settled
  \* ---- the scan handler: the request and the lookups, per slot ----
  selectedSourceIds, \* the selectedSourceIds local: null, or the ids of the body
  allSources,   \* allRssFeeds followed by allScrapeConfigs, after the selection
  lookups,      \* history: how the ComplianceSource, CompanyProfile and RelevanceRule lookups went
  companyContext,  \* the companyContext local
  env,          \* how the handler is invoked
  \* ---- a function of the program called on its own ----
  fnpc,         \* "call" | "done"
  fnIn,         \* its arguments
  fnOut,        \* what it returned
  dQueryOk      \* deduplicateItems: did RegulatoryUpdate.filter return

fetchVars == <<fpc, maxRetries, attempt, lastError, timer, now, result, sentAt, responses, waits>>
dedupeVars == <<dpc, dItems, dExisting, dBatch, dOut, dQueryOk>>
fnVars == <<fnpc, fnIn, fnOut>>
requestVars == <<selectedSourceIds, allSources, lookups, companyContext>>
taskVars == <<enrichTasks, llmCalls, analysisResults, analysisOrder, requestVars>>
healthVars == <<healthStore, sourceHealthUpdates, hTask, hOutcome, failStreak, hStoreFailed>>

scanVars == <<pc, allItems, feedContent, relevanceRules, updates, existingTitlesForSave,
              existingUrlsForSave, savedTitlesThisBatch, savedUrlsThisBatch, idx, errors,
              response, updateStore, ruleStore, pendingRuleUpdates, runs, runId, knownAtStart, requeryLen, savedUpdates, createdBy,
              queryFailed, faults, taskVars>>

vars == <<fetchVars, dedupeVars, healthVars, scanVars, env, fnVars>>

\* A component that a specification does not exercise stays idle.
FetchIdle ==
  /\ fpc = "idle"
  /\ maxRetries = 0
  /\ attempt = 0
  /\ lastError = <<"undefined", 0>>
  /\ timer = 0
  /\ now = 0
  /\ result = [success |-> FALSE, error |-> <<"undefined", 0>>, attempt |-> 0]
  /\ sentAt = <<>>
  /\ responses = <<>>
  /\ waits = <<>>

DedupeIdle ==
  /\ dpc = "idle"
  /\ dItems = <<>>
  /\ dExisting = <<>>
  /\ dBatch = <<>>
  /\ dOut = <<>>
  /\ dQueryOk = TRUE

FnIdle ==
  /\ fnpc = "idle"
  /\ fnIn = <<>>
  /\ fnOut = <<>>

HealthIdle ==
  /\ healthStore = <<>>
  /\ sourceHealthUpdates = <<>>
  /\ hTask = <<>>
  /\ hOutcome = <<>>
  /\ failStreak = <<>>
  /\ hStoreFailed = 0

ScanIdle ==
  /\ pc = <<>>
  /\ allItems = <<>>
  /\ feedContent = <<>>
  /\ relevanceRules = <<>>
  /\ updates = <<>>
  /\ existingTitlesForSave = <<>>
  /\ existingUrlsForSave = <<>>
  /\ savedTitlesThisBatch = <<>>
  /\ savedUrlsThisBatch = <<>>
  /\ idx = <<>>
  /\ errors = <<>>
  /\ response = <<>>
  /\ updateStore = <<>>
  /\ ruleStore = <<>>
  /\ pendingRuleUpdates = <<>>
  /\ runs = 0
  /\ runId = <<>>
  /\ knownAtStart = <<>>
  /\ requeryLen = <<>>
  /\ savedUpdates = <<>>
  /\ createdBy = <<>>
  /\ queryFailed = FALSE
  /\ faults = 0
  /\ enrichTasks = <<>>
  /\ llmCalls = <<>>
  /\ analysisResults = <<>>
  /\ analysisOrder = <<>>
  /\ selectedSourceIds = <<>>
  /\ allSources = <<>>
  /\ lookups = <<>>
  /\ companyContext = <<>>
  /\ env = "none"

-----------------------------------------------------------------------------
(* Strings *)

LowerChar(c) ==
  CASE c = "A" -> "a"
    [] c = "B" -> "b"
    [] c = "G" -> "g"
    [] c = "H" -> "h"
    [] c = "U" -> "u"
    [] c = "V" -> "v"
    [] OTHER -> c

\* String.prototype.toLowerCase
ToLowerCase(s) == [i \in 1..Len(s) |-> LowerChar(s[i])]

RECURSIVE TrimStart(_)
TrimStart(s) == IF s # <<>> /\ Head(s) = " " THEN TrimStart(Tail(s)) ELSE s

RECURSIVE TrimEnd(_)
TrimEnd(s) ==
  IF s # <<>> /\ s[Len(s)] = " " THEN TrimEnd(SubSeq(s, 1, Len(s) - 1)) ELSE s

\* String.prototype.trim
Trim(s) == TrimEnd(TrimStart(s))

\* String.prototype.includes
Includes(s, p) ==
  \E i \in 0..(Len(s) - Len(p)) : SubSeq(s, i + 1, i + Len(p)) = p

\* String.prototype.startsWith
StartsWith(s, p) == Len(s) >= Len(p) /\ SubSeq(s, 1, Len(p)) = p

-----------------------------------------------------------------------------
(* fetchWithRetry *)

MaxRetriesBound == 3      \* maxRetries ranges over 0..MaxRetriesBound
TimeoutMs == 15000
BackoffBaseMs == 1000
TimerSlackMs == 50        \* a timer fires at its delay or up to this much later

RECURSIVE Pow2(_)
Pow2(n) == IF n = 0 THEN 1 ELSE 2 * Pow2(n - 1)

IsDigit(c) == c \in {"0", "1", "2", "3"}
DigitVal(c) == CASE c = "0" -> 0 [] c = "1" -> 1 [] c = "2" -> 2 [] c = "3" -> 3

RECURSIVE DigitsValue(_, _)
DigitsValue(s, acc) ==
  IF s # <<>> /\ IsDigit(Head(s))
    THEN DigitsValue(Tail(s), 10 * acc + DigitVal(Head(s)))
    ELSE acc

\* parseInt(text, 10): leading white space skipped, then the longest digit prefix;
\* NaN when there is none.
ParseInt(text) ==
  LET t == TrimStart(text)
  IN  IF t # <<>> /\ IsDigit(Head(t))
        THEN [nan |-> FALSE, val |-> DigitsValue(t, 0)]
        ELSE [nan |-> TRUE, val |-> 0]

\* A Retry-After header: absent, or its text together with what
\* new Date(text).getTime() yields for it (valid = FALSE for NaN).
NoHeader == [present |-> FALSE, text |-> <<>>, valid |-> FALSE, date |-> 0]
TextHeader(t) == [present |-> TRUE, text |-> t, valid |-> FALSE, date |-> 0]
DateHeader(d) == [present |-> TRUE, text |-> <<"W", "e", "d">>, valid |-> TRUE, date |-> d]

RetryAfterHeaders(t) ==
  { NoHeader, TextHeader(<<>>), TextHeader(<<"0">>), TextHeader(<<"2">>),
    TextHeader(<<" ", "1", "s">>), TextHeader(<<"s", "o", "o", "n">>),
    DateHeader(t + 3000), DateHeader(t - 1000) }

Statuses == {200, 304, 400, 404, 429, 499, 500, 503}

\* What one call of fetch() can do: resolve with a response, or reject
\* (network failure, or the 15 s AbortSignal timeout).
Outcomes(t) ==
  [kind : {"response"}, status : Statuses \ {429}, retryAfter : {NoHeader}]
    \cup [kind : {"response"}, status : {429}, retryAfter : RetryAfterHeaders(t)]
    \cup [kind : {"network", "timeout"}, status : {0}, retryAfter : {NoHeader}]

Latency(o) == IF o.kind = "timeout" THEN TimeoutMs ELSE 0

HttpError(status) == <<"HTTP", status>>
ErrMessage(o) == <<o.kind, 0>>
Undefined == <<"undefined", 0>>
NoWait == 0 - 1

MutWaitTime429(h, att, t) == Pow2(att) * BackoffBaseMs

\* lines 88-102: the wait computed for a 429
WaitTime429(h, att, t) ==
  LET backoff == Pow2(att) * BackoffBaseMs
      parsed == ParseInt(h.text)
  IN  IF h.present /\ h.text # <<>>
        THEN IF ~parsed.nan THEN parsed.val * 1000
             ELSE IF h.valid THEN (IF h.date - t > 0 THEN h.date - t ELSE 0)
             ELSE backoff
        ELSE backoff

\* line 82
ResponseOk(o) == o.kind = "response" /\ o.status >= 200 /\ o.status <= 299

MutIsClientError(status) == status > 400 /\ status < 500

\* line 111
IsClientError(status) == status >= 400 /\ status < 500

\* line 104 and line 121
NotLastAttempt(att, mr) == att < mr - 1

Log(o, t, w) ==
  /\ sentAt' = Append(sentAt, now)
  /\ responses' = Append(responses, [outcome |-> o, at |-> t, attempt |-> attempt])
  /\ waits' = Append(waits, w)

\* One iteration of the loop body (lines 76-123), up to its return, its
\* setTimeout, or the next iteration.
FetchAttempt(o) ==
  LET t == now + Latency(o)
      w429 == WaitTime429(o.retryAfter, attempt, t)
      back == Pow2(attempt) * BackoffBaseMs
  IN
  /\ fpc = "try"
  /\ attempt < maxRetries
  /\ now' = t
  /\ IF ResponseOk(o)
       THEN /\ result' = [success |-> TRUE, error |-> Undefined, attempt |-> attempt + 1]
            /\ fpc' = "returned"
            /\ Log(o, t, NoWait)
            /\ UNCHANGED <<attempt, lastError, timer>>
     ELSE IF o.kind = "response" /\ o.status = 429 /\ NotLastAttempt(attempt, maxRetries)
       THEN /\ fpc' = "wait429"
            /\ timer' = w429
            /\ Log(o, t, w429)
            /\ UNCHANGED <<attempt, lastError, result>>
     ELSE IF o.kind = "response" /\ IsClientError(o.status)
       THEN /\ result' = [success |-> FALSE, error |-> HttpError(o.status),
                          attempt |-> attempt + 1]
            /\ fpc' = "returned"
            /\ Log(o, t, NoWait)
            /\ UNCHANGED <<attempt, lastError, timer>>
     ELSE /\ lastError' = (IF o.kind = "response" THEN HttpError(o.status) ELSE ErrMessage(o))
          /\ IF NotLastAttempt(attempt, maxRetries)
               THEN /\ fpc' = "backoff"
                    /\ timer' = back
                    /\ Log(o, t, back)
                    /\ UNCHANGED attempt
               ELSE /\ fpc' = "try"
                    /\ attempt' = attempt + 1
                    /\ Log(o, t, NoWait)
                    /\ UNCHANGED timer
          /\ UNCHANGED result

MutWait429Done(slack) ==
  /\ fpc = "wait429"
  /\ now' = now + timer + slack
  /\ fpc' = "try"
  /\ UNCHANGED <<maxRetries, attempt, lastError, timer, result, sentAt, responses, waits>>

\* line 105-106: the 429 timer fires, then `continue`
Wait429Done(slack) ==
  /\ fpc = "wait429"
  /\ now' = now + timer + slack
  /\ attempt' = attempt + 1
  /\ fpc' = "try"
  /\ UNCHANGED <<maxRetries, lastError, timer, result, sentAt, responses, waits>>

MutBackoffDone(slack) ==
  /\ fpc = "backoff"
  /\ now' = now + slack
  /\ attempt' = attempt + 1
  /\ fpc' = "try"
  /\ UNCHANGED <<maxRetries, lastError, timer, result, sentAt, responses, waits>>

\* line 122: the backoff timer fires, then the next iteration
BackoffDone(slack) ==
  /\ fpc = "backoff"
  /\ now' = now + timer + slack
  /\ attempt' = attempt + 1
  /\ fpc' = "try"
  /\ UNCHANGED <<maxRetries, lastError, timer, result, sentAt, responses, waits>>

MutReturnExhausted ==
  /\ fpc = "try"
  /\ attempt >= maxRetries
  /\ result' = [success |-> FALSE, error |-> lastError, attempt |-> maxRetries + 1]
  /\ fpc' = "returned"
  /\ UNCHANGED <<maxRetries, attempt, lastError, timer, now, sentAt, responses, waits>>

\* line 126: the loop is exhausted
ReturnExhausted ==
  /\ fpc = "try"
  /\ attempt >= maxRetries
  /\ result' = [success |-> FALSE, error |-> lastError, attempt |-> maxRetries]
  /\ fpc' = "returned"
  /\ UNCHANGED <<maxRetries, attempt, lastError, timer, now, sentAt, responses, waits>>

FetchStep ==
  /\ \E o \in Outcomes(now) : FetchAttempt(o)
  /\ UNCHANGED maxRetries
  /\ UNCHANGED <<dedupeVars, healthVars, scanVars, env, fnVars>>

FetchTimer429 ==
  /\ \E slack \in {0, TimerSlackMs} : Wait429Done(slack)
  /\ UNCHANGED <<dedupeVars, healthVars, scanVars, env, fnVars>>

FetchTimerBackoff ==
  /\ \E slack \in {0, TimerSlackMs} : BackoffDone(slack)
  /\ UNCHANGED <<dedupeVars, healthVars, scanVars, env, fnVars>>

FetchReturn ==
  /\ ReturnExhausted
  /\ UNCHANGED <<dedupeVars, healthVars, scanVars, env, fnVars>>

InitFetch ==
  /\ DedupeIdle
  /\ HealthIdle
  /\ ScanIdle
  /\ FnIdle
  /\ fpc = "try"
  /\ maxRetries \in 0..MaxRetriesBound
  /\ attempt = 0
  /\ lastError = Undefined
  /\ timer = 0
  /\ now = 0
  /\ result = [success |-> FALSE, error |-> Undefined, attempt |-> 0]
  /\ sentAt = <<>>
  /\ responses = <<>>
  /\ waits = <<>>

NextFetch == FetchStep \/ FetchTimer429 \/ FetchTimerBackoff \/ FetchReturn

SpecFetch == InitFetch /\ [][NextFetch]_vars

\* The event loop runs a ready continuation and fires a due timer.
FairSpecFetch == SpecFetch /\ WF_vars(NextFetch)

-----------------------------------------------------------------------------
(* Properties of fetchWithRetry *)

ClientErrorAt(k) ==
  /\ responses[k].outcome.kind = "response"
  /\ responses[k].outcome.status \in 400..499
  /\ responses[k].outcome.status # 429

\* C8: a response with status 400..499 other than 429, at any attempt, is the
\* last request of the call: fetchWithRetry has returned success = false with
\* "HTTP <status>" and the number of that attempt; in particular a server that
\* answers 404 at once gets exactly one request.
C8_ClientErrorNotRetried ==
  \A k \in 1..Len(responses) :
    ClientErrorAt(k) =>
      /\ k = Len(responses)
      /\ Len(sentAt) = k
      /\ fpc = "returned"
      /\ result = [success |-> FALSE,
                   error |-> <<"HTTP", responses[k].outcome.status>>,
                   attempt |-> k]

C8_Witness ==
  /\ Len(responses) = 2
  /\ responses[1].outcome.status = 500
  /\ responses[2].outcome.status = 404
  /\ fpc = "returned"

\* Retry-After texts that are an integer number of seconds, with that number.
IntegerSeconds(text) ==
  CASE text = <<"0">> -> 0
    [] text = <<"2">> -> 2
    [] OTHER -> -1

Is429At(k) ==
  /\ responses[k].outcome.kind = "response"
  /\ responses[k].outcome.status = 429
  /\ k < maxRetries

\* C9: a 429 on an attempt that is not the last does not end the call;
\* with Retry-After: n (integer seconds) the next request is issued no earlier
\* than n seconds after the response, and with no Retry-After header the timer
\* is 2^attempt seconds (attempt counted from 0) and the next request is issued
\* no earlier than that.
C9_RetryAfterHonoured ==
  \A k \in 1..Len(responses) :
    Is429At(k) =>
      LET h == responses[k].outcome.retryAfter
          n == IntegerSeconds(h.text)
      IN  /\ (Len(sentAt) = k => fpc # "returned")
          /\ (h.present /\ n >= 0) =>
               /\ waits[k] = n * 1000
               /\ (Len(sentAt) > k => sentAt[k + 1] >= responses[k].at + n * 1000)
          /\ ~h.present =>
               /\ waits[k] = Pow2(k - 1) * 1000
               /\ (Len(sentAt) > k =>
                     sentAt[k + 1] >= responses[k].at + Pow2(k - 1) * 1000)

C9_Witness ==
  /\ Len(sentAt) = 3
  /\ Is429At(1) /\ responses[1].outcome.retryAfter.text = <<"2">>
  /\ Is429At(2) /\ ~responses[2].outcome.retryAfter.present
  /\ sentAt[2] >= 2000
  /\ sentAt[3] >= sentAt[2] + 2000

ResultShape ==
  /\ result.success \in BOOLEAN
  /\ result.attempt \in 0..maxRetries
  /\ result.success = FALSE => result.error = lastError \/ result.error[1] = "HTTP"

\* C10: whatever the server does, fetchWithRetry never throws, never issues
\* more than maxRetries requests, and in the end returns a result object.
C10_TerminatesWithResult ==
  /\ [](fpc # "thrown")
  /\ [](Len(sentAt) <= maxRetries)
  /\ <>[](fpc = "returned" /\ ResultShape)

C10_Witness ==
  /\ fpc = "returned"
  /\ maxRetries = 3
  /\ Len(sentAt) = 3
  /\ responses[1].outcome.kind = "timeout"
  /\ responses[2].outcome.status = 429
  /\ responses[3].outcome.kind = "network"
  /\ result = [success |-> FALSE, error |-> <<"network", 0>>, attempt |-> 3]

-----------------------------------------------------------------------------
(* deduplicateItems *)

MaxBatch == 3             \* a batch holds at most MaxBatch items
ExistingCap == 500

\* x.toLowerCase().trim()
NormKey(s) == Trim(ToLowerCase(s))

\* Titles and links as the parsers and the classifier can produce them: a
\* title is a non-empty string, which may differ from another in case or in
\* surrounding white space only, or be white space only; "h" stands for the
\* scheme prefix http.
Titles == { <<"A">>, <<"a", " ">>, <<"B">>, <<" ">> }
Links == { <<>>, <<"h", "u">>, <<"h", "U", " ">>, <<"h", "v">> }

DedupeItems == [title : Titles, link : Links]

RECURSIVE SeqsUpTo(_, _)
SeqsUpTo(S, n) ==
  IF n = 0 THEN { <<>> }
  ELSE LET shorter == SeqsUpTo(S, n - 1)
       IN  shorter \cup { Append(q, x) : q \in { r \in shorter : Len(r) = n - 1 }, x \in S }

RECURSIVE MutBatchWalk(_, _, _, _)
MutBatchWalk(items, i, seenInBatch, seenUrlsInBatch) ==
  IF i > Len(items) THEN <<>>
  ELSE
    LET titleKey == NormKey(items[i].title)
    IN  IF titleKey \in seenInBatch
          THEN MutBatchWalk(items, i + 1, seenInBatch, seenUrlsInBatch)
        ELSE <<items[i]>> \o
             MutBatchWalk(items, i + 1, seenInBatch \cup {titleKey}, seenUrlsInBatch)

MutBatchKeeps(item, seenInBatch, seenUrlsInBatch) ==
  LET urlKey == NormKey(item.link)
  IN  ~(urlKey # <<>> /\ urlKey \in seenUrlsInBatch)

\* lines 621-631: the filter callback on one item, with the two sets as they
\* stand when the item is reached
BatchKeeps(item, seenInBatch, seenUrlsInBatch) ==
  LET titleKey == NormKey(item.title)
      urlKey == NormKey(item.link)
  IN  IF titleKey \in seenInBatch THEN FALSE
      ELSE IF urlKey # <<>> /\ urlKey \in seenUrlsInBatch THEN FALSE
      ELSE TRUE

\* lines 620-632: the filter callback applied to items[lo..hi] in order. The
\* sets met by the second half of the range are those the first half leaves:
\* the title key of every item kept (line 629) and its URL key when it is not
\* empty (line 630).
RECURSIVE BatchRange(_, _, _, _, _)
BatchRange(items, lo, hi, seenInBatch, seenUrlsInBatch) ==
  IF lo > hi THEN <<>>
  ELSE IF lo = hi
    THEN IF BatchKeeps(items[lo], seenInBatch, seenUrlsInBatch) THEN <<items[lo]>> ELSE <<>>
  ELSE
    LET mid == (lo + hi) \div 2
        first == BatchRange(items, lo, mid, seenInBatch, seenUrlsInBatch)
        titleKeys == { NormKey(first[k].title) : k \in 1..Len(first) }
        urlKeys == { NormKey(first[k].link) : k \in 1..Len(first) } \ { <<>> }
    IN  first \o BatchRange(items, mid + 1, hi, seenInBatch \cup titleKeys,
                            seenUrlsInBatch \cup urlKeys)

\* lines 620-632: the filter callback applied to items[i..]
BatchWalk(items, i, seenInBatch, seenUrlsInBatch) ==
  BatchRange(items, i, Len(items), seenInBatch, seenUrlsInBatch)

\* lines 619-632
BatchDeduped(items) == BatchWalk(items, 1, {}, {})

\* lines 656-658: slice(0, 500)
CapExisting(existingUpdates) ==
  IF Len(existingUpdates) > ExistingCap
    THEN SubSeq(existingUpdates, 1, ExistingCap)
    ELSE existingUpdates

MutTitleKeys(records) ==
  { records[i].title : i \in 1..Len(records) } \ { <<>> }

\* lines 666-668 and 1169: the titles of the records, normalised, the empty ones dropped
TitleKeys(records) ==
  { NormKey(records[i].title) : i \in 1..Len(records) } \ { <<>> }

\* lines 669-671 and 1170
UrlKeys(records) ==
  { NormKey(records[i].source_url) : i \in 1..Len(records) } \ { <<>> }

\* lines 675-681: the filter callback on one item
HistoryKeeps(item, existingTitles, existingUrls) ==
  LET normalizedTitle == NormKey(item.title)
      normalizedUrl == NormKey(item.link)
  IN  IF normalizedTitle \in existingTitles THEN FALSE
      ELSE IF normalizedUrl # <<>> /\ normalizedUrl \in existingUrls THEN FALSE
      ELSE TRUE

\* lines 674-682: the filter callback applied to batchDeduped[i..]
HistoryWalk(batchDeduped, i, existingTitles, existingUrls) ==
  SelectSeq(SubSeq(batchDeduped, i, Len(batchDeduped)),
            LAMBDA item : HistoryKeeps(item, existingTitles, existingUrls))

\* lines 665-682
HistoryFiltered(batchDeduped, existingUpdates) ==
  HistoryWalk(batchDeduped, 1, TitleKeys(existingUpdates), UrlKeys(existingUpdates))

MutDeduplicateItems(items, existingUpdates, queryOk) ==
  LET batchDeduped == BatchDeduped(items)
  IN  IF batchDeduped = <<>> \/ ~queryOk THEN <<>>
      ELSE HistoryFiltered(batchDeduped, CapExisting(existingUpdates))

\* lines 618-683; queryOk = FALSE when RegulatoryUpdate.filter throws
DeduplicateItems(items, existingUpdates, queryOk) ==
  LET batchDeduped == BatchDeduped(items)
  IN  IF batchDeduped = <<>> THEN <<>>
      ELSE IF ~queryOk THEN batchDeduped
      ELSE HistoryFiltered(batchDeduped, CapExisting(existingUpdates))

StoredRecord(t, u) == [title |-> t, source_url |-> u]

\* Store contents the function is run against.
ExistingChoices ==
  { <<>>,
    <<StoredRecord(<<"a">>, <<>>)>>,
    <<StoredRecord(<<"B", " ">>, <<"H", "U">>)>>,
    <<StoredRecord(<<" ">>, <<" ">>), StoredRecord(<<"C">>, <<"h", "v">>)>> }

Deduplicate(queryOk) ==
  /\ dpc = "call"
  /\ dBatch' = BatchDeduped(dItems)
  /\ dOut' = DeduplicateItems(dItems, dExisting, queryOk)
  /\ dQueryOk' = queryOk
  /\ dpc' = "done"
  /\ UNCHANGED <<dItems, dExisting>>

DedupeCall ==
  /\ \E queryOk \in BOOLEAN : Deduplicate(queryOk)
  /\ UNCHANGED <<fetchVars, healthVars, scanVars, env, fnVars>>

\* deduplicateItems called on what it returned, the store and the outcome of
\* its query being the same
DeduplicateAgain ==
  /\ dpc = "done"
  /\ dOut' = DeduplicateItems(dOut, dExisting, dQueryOk)
  /\ dpc' = "again"
  /\ UNCHANGED <<dItems, dExisting, dBatch, dQueryOk>>

DedupeAgain ==
  /\ DeduplicateAgain
  /\ UNCHANGED <<fetchVars, healthVars, scanVars, env, fnVars>>

InitDedupe ==
  /\ FetchIdle
  /\ HealthIdle
  /\ ScanIdle
  /\ dpc = "call"
  /\ dItems \in SeqsUpTo(DedupeItems, MaxBatch)
  /\ dExisting \in ExistingChoices
  /\ dBatch = <<>>
  /\ dOut = <<>>
  /\ dQueryOk = TRUE
  /\ FnIdle

NextDedupe == DedupeCall \/ DedupeAgain

SpecDedupe == InitDedupe /\ [][NextDedupe]_vars

-----------------------------------------------------------------------------
(* Properties of deduplicateItems *)

SameTitle(a, b) == Trim(ToLowerCase(a.title)) = Trim(ToLowerCase(b.title))
SameUrl(a, b) ==
  /\ Trim(ToLowerCase(a.link)) # <<>>
  /\ Trim(ToLowerCase(a.link)) = Trim(ToLowerCase(b.link))

\* C3: the intra-batch phase keeps the first item, and of any two items with the
\* same normalised title, or the same normalised non-empty URL, it keeps at most
\* one; two items with the same title and different URLs leave one survivor.
C3_BatchKeepsOnePerKey ==
  dpc = "done" =>
    /\ \A i \in 1..Len(dBatch) : \A j \in 1..Len(dBatch) :
         i # j => ~SameTitle(dBatch[i], dBatch[j]) /\ ~SameUrl(dBatch[i], dBatch[j])
    /\ dItems # <<>> => dBatch # <<>> /\ dBatch[1] = dItems[1]
    /\ (Len(dItems) = 2 /\ SameTitle(dItems[1], dItems[2])) => Len(dBatch) = 1

C3_Witness ==
  /\ dpc = "done"
  /\ dItems = << [title |-> <<"A">>, link |-> <<"h", "u">>],
                 [title |-> <<"a", " ">>, link |-> <<"h", "v">>],
                 [title |-> <<"B">>, link |-> <<"h", "U", " ">>] >>
  /\ dBatch = << [title |-> <<"A">>, link |-> <<"h", "u">>] >>

-----------------------------------------------------------------------------
(* The scan handler: data *)

MaxRuns == 2              \* at most MaxRuns invocations of the handler
MaxPerSource == 1         \* a source's task returns at most MaxPerSource items
MaxUpdates == 2           \* the classifier returns at most MaxUpdates updates
MaxHealthFaults == 1      \* at most MaxHealthFaults SourceHealth calls throw
MaxFaults == 1            \* at most MaxFaults other store or classifier calls throw
EnrichCap == 15
FeedContentCap == 50

Slots == {1, 2}           \* handler invocations that can be in flight together

AbsentNum == 0 - 1        \* a numeric field the object does not have
AbsentStr == "absent"     \* a string field the object does not have

\* value || fallback, for a string field
OrElse(value, fallback) == IF value = AbsentStr THEN fallback ELSE value

\* lines 6-29 and 32-69: one RSS feed and one scrape configuration of the
\* hardcoded lists; the objects have no id
RSS_FEEDS ==
  << [name |-> <<"F">>, url |-> "ftc.gov/feed", type |-> "rss", id |-> AbsentStr] >>
SCRAPE_CONFIGS ==
  << [name |-> <<"S">>, url |-> "skadden.com/insights", type |-> "scrape", id |-> AbsentStr] >>

\* lines 751-771: staticSourceIdMap, for the two hardcoded sources
StaticSourceIds == {"ftc", "skadden"}
StaticSourceIdMap(id) == IF id = "ftc" THEN <<"F">> ELSE <<"S">>

\* The records of the ComplianceSource store that scans can meet: an active
\* scrape source and an inactive feed. The id is the one the store assigned.
CustomSources ==
  << [id |-> "d1", name |-> <<"D">>, url |-> "example.org/news", type |-> "scrape",
      is_active |-> TRUE],
     [id |-> "d2", name |-> <<"E">>, url |-> "example.org/feed", type |-> "rss",
      is_active |-> FALSE] >>

\* lines 718-735: the object pushed for a custom source (name, url, region and,
\* for a scrape source, its selectors); the store's id is not copied
DynamicSource(source) ==
  [name |-> source.name, url |-> source.url, type |-> source.type, id |-> AbsentStr]

\* Every source a scan can fetch: the hardcoded ones, then the custom ones.
HSources ==
  RSS_FEEDS \o SCRAPE_CONFIGS
    \o [i \in 1..Len(CustomSources) |-> DynamicSource(CustomSources[i])]

SourceIds == 1..Len(HSources)

Item(t, l, src) ==
  [title |-> t, link |-> l, description |-> <<>>, source |-> src, fullContent |-> <<>>]

\* (title, link) of the articles a source carries. A feed title is whatever
\* extractTextContent returns and may end in, or consist of, white space; a
\* scraped title is trimmed and not empty.
Articles(src) ==
  IF src.type = "rss"
    THEN { << <<"A">>, <<"h", "u">> >>,
           << <<"a", " ">>, <<"h", "v">> >>,
           << <<" ">>, <<>> >> }
    ELSE { << <<"A">>, <<"h", "u">> >>,
           << <<"B">>, <<"h", "U", " ">> >> }

ItemsOf(src) == { Item(a[1], a[2], src.name) : a \in Articles(src) }

\* lines 1064-1110: the enum values and the required fields of an update in
\* response_json_schema
DomainEnum ==
  {"AI Law", "Privacy", "Antitrust", "Consumer Protection", "Platform Liability", "IP"}
JurisdictionEnum ==
  {"United States", "European Union", "United Kingdom", "Israel", "Brazil", "China",
   "India", "Australia", "Canada", "Global", "Germany", "Netherlands"}
RiskScoreEnum == {"High", "Medium", "Low"}
UpdateTypeEnum == {"Regulatory", "Enforcement", "Ruling", "Court Filing", "Class Action"}
RequiredFields ==
  {"title", "source", "domain", "jurisdiction", "risk_score", "summary", "update_type",
   "publish_date"}

\* An update of the classifier's answer; a field the answer leaves out is AbsentStr.
TypedUpdate(t, u, type) ==
  [title |-> t, source_url |-> u, source |-> <<"L">>, update_type |-> type,
   domain |-> "Privacy", jurisdiction |-> "Global", risk_score |-> "Low",
   summary |-> "s", publish_date |-> "2026-01-01"]

Update(t, u) == TypedUpdate(t, u, "Regulatory")

\* What the classifier can return for an article: it may echo title and link,
\* change the case or the white space of either, or leave the URL out.
ClassifierUpdates ==
  { Update(<<"A">>, <<"h", "u">>),
    Update(<<"a", " ">>, <<>>),
    TypedUpdate(<<"B">>, <<"h", "U", " ">>, "Ruling"),
    Update(<<" ">>, <<>>) }

Rule(type, pat, active) ==
  [rule_type |-> type, pattern |-> pat, is_active |-> active, times_applied |-> 0]

\* Contents of the RelevanceRule store.
RuleStoreChoices ==
  { <<>>,
    << Rule("include_keyword", <<"a">>, TRUE),
       Rule("exclude_title_pattern", <<"A">>, FALSE),
       Rule("exclude_keyword", <<"B">>, TRUE) >> }

MutTake(q, n) == q

\* q.slice(0, n)
Take(q, n) == IF Len(q) > n THEN SubSeq(q, 1, n) ELSE q

Range(q) == { q[i] : i \in 1..Len(q) }

RECURSIVE MutConcat(_, _)
MutConcat(qs, k) ==
  IF k > Len(qs) \/ qs[k] = <<>> THEN <<>> ELSE qs[k] \o MutConcat(qs, k + 1)

RECURSIVE Concat(_, _)
Concat(qs, k) == IF k > Len(qs) THEN <<>> ELSE qs[k] \o Concat(qs, k + 1)

-----------------------------------------------------------------------------
(* The scan handler: relevance pre-filter (lines 923-972) *)

\* line 937
IsExcludeType(ruleType) ==
  ruleType \in {"exclude_keyword", "exclude_topic", "exclude_title_pattern",
                "exclude_source_pattern", "exclude_other"}

MutRuleMatches(rule, item) ==
  /\ rule.pattern # <<>>
  /\ Includes(ToLowerCase(item.title), ToLowerCase(rule.pattern))

\* lines 933-954: does the rule match the item
RuleMatches(rule, item) ==
  LET pattern == ToLowerCase(rule.pattern)
      titleLower == ToLowerCase(item.title)
      descLower == ToLowerCase(item.description)
      sourceLower == ToLowerCase(item.source)
  IN  /\ pattern # <<>>
      /\ IsExcludeType(rule.rule_type)
      /\ CASE rule.rule_type \in {"exclude_keyword", "exclude_topic"} ->
                Includes(titleLower, pattern) \/ Includes(descLower, pattern)
           [] rule.rule_type = "exclude_title_pattern" -> Includes(titleLower, pattern)
           [] rule.rule_type = "exclude_source_pattern" -> Includes(sourceLower, pattern)
           [] OTHER -> FALSE

MutFirstMatch(rules, item) ==
  IF rules # <<>> /\ RuleMatches(rules[1], item) THEN 1 ELSE 0

\* lines 932-963: the index of the first matching rule, 0 when none matches
FirstMatch(rules, item) ==
  LET hits == { j \in 1..Len(rules) : RuleMatches(rules[j], item) }
  IN  IF hits = {} THEN 0 ELSE CHOOSE j \in hits : \A k \in hits : j <= k

\* RelevanceRule.filter({ is_active: true }): the active rules with their ids
RECURSIVE ActiveRules(_, _)
ActiveRules(store, j) ==
  IF j > Len(store) THEN <<>>
  ELSE IF store[j].is_active
    THEN <<[store[j] EXCEPT !.is_active = TRUE] @@ [id |-> j]>> \o ActiveRules(store, j + 1)
    ELSE ActiveRules(store, j + 1)

\* lines 926-965: the items kept, of items[i..]
KeptByRules(items, rules, i) ==
  SelectSeq(SubSeq(items, i, Len(items)), LAMBDA item : FirstMatch(rules, item) = 0)

MutRuleUpdatesIssued(items, rules, i) ==
  LET hits == SelectSeq(SubSeq(items, i, Len(items)),
                        LAMBDA item : FirstMatch(rules, item) # 0)
      last(item) == CHOOSE j \in 1..Len(rules) :
                      /\ RuleMatches(rules[j], item)
                      /\ \A k \in (j + 1)..Len(rules) : ~RuleMatches(rules[k], item)
  IN  [k \in 1..Len(hits) |->
         [id |-> rules[last(hits[k])].id,
          times_applied |-> rules[last(hits[k])].times_applied + 1]]

\* lines 956-960: the RelevanceRule.update calls issued, one per dropped item
\* of items[i..]
RuleUpdatesIssued(items, rules, i) ==
  LET droppedItems == SelectSeq(SubSeq(items, i, Len(items)),
                                LAMBDA item : FirstMatch(rules, item) # 0)
  IN  [k \in 1..Len(droppedItems) |->
         LET j == FirstMatch(rules, droppedItems[k])
         IN  [id |-> rules[j].id, times_applied |-> rules[j].times_applied + 1]]

\* lines 1192-1195: allItems.find(...); 0 when there is no original item
FindOriginal(items, update) ==
  LET hits == { i \in 1..Len(items) :
                  \/ /\ items[i].link # <<>>
                     /\ update.source_url # <<>>
                     /\ NormKey(items[i].link) = NormKey(update.source_url)
                  \/ /\ items[i].title # <<>>
                     /\ update.title # <<>>
                     /\ NormKey(items[i].title) = NormKey(update.title) }
  IN  IF hits = {} THEN 0 ELSE CHOOSE i \in hits : \A k \in hits : i <= k

-----------------------------------------------------------------------------
(* The relevance pre-filter on its own: rule query and filter (lines 916-972) *)

MaxRules == 2             \* the RelevanceRule store holds at most MaxRules rules
MaxFilterItems == 2       \* the filter is given at most MaxFilterItems items

FilterItem(t, d, src) ==
  [title |-> t, link |-> <<>>, description |-> d, source |-> src, fullContent |-> <<>>]

\* Items: pattern in the title, in the description, in the source name, nowhere.
FilterItems ==
  { FilterItem(<<"G", "a">>, <<>>, <<"F">>),
    FilterItem(<<"A">>, <<"a", "g">>, <<"F">>),
    FilterItem(<<"B">>, <<>>, <<"g">>),
    FilterItem(<<"A">>, <<>>, <<"S">>) }

\* Rules: every type the switch knows, one it does not, the inclusion types, an
\* empty pattern, an inactive rule.
FilterRules ==
  { Rule("exclude_keyword", <<"G">>, TRUE),
    Rule("exclude_keyword", <<"g">>, FALSE),
    Rule("exclude_keyword", <<>>, TRUE),
    Rule("exclude_topic", <<"a", "G">>, TRUE),
    Rule("exclude_title_pattern", <<"g">>, TRUE),
    Rule("exclude_source_pattern", <<"G">>, TRUE),
    Rule("exclude_other", <<"a">>, TRUE),
    Rule("include_keyword", <<"a">>, TRUE),
    Rule("include_topic", <<"g">>, TRUE) }

\* lines 916-972 with the rules the query returns
FilterByRelevance(items, store) == KeptByRules(items, ActiveRules(store, 1), 1)

FilterCall ==
  /\ fnpc = "call"
  /\ fnOut' = FilterByRelevance(fnIn.items, fnIn.store)
  /\ fnpc' = "done"
  /\ UNCHANGED fnIn
  /\ UNCHANGED <<fetchVars, dedupeVars, healthVars, scanVars, env>>

InitFilter ==
  /\ FetchIdle
  /\ DedupeIdle
  /\ HealthIdle
  /\ ScanIdle
  /\ fnpc = "call"
  /\ fnIn \in [items : SeqsUpTo(FilterItems, MaxFilterItems),
               store : SeqsUpTo(FilterRules, MaxRules)]
  /\ fnOut = <<>>

NextFilter == FilterCall

SpecFilter == InitFilter /\ [][NextFilter]_vars

\* The rule removes the item, in the words of the specification.
Excludes(rule, item) ==
  /\ rule.is_active
  /\ rule.pattern # <<>>
  /\ LET pat == ToLowerCase(rule.pattern)
         inTitle == Includes(ToLowerCase(item.title), pat)
         inDescription == Includes(ToLowerCase(item.description), pat)
         inSource == Includes(ToLowerCase(item.source), pat)
     IN  \/ rule.rule_type \in {"exclude_keyword", "exclude_topic"} /\ (inTitle \/ inDescription)
         \/ rule.rule_type = "exclude_title_pattern" /\ inTitle
         \/ rule.rule_type = "exclude_source_pattern" /\ inSource

Excluded(item, store) == \E j \in 1..Len(store) : Excludes(store[j], item)

IsIncludeType(ruleType) == ruleType \in {"include_keyword", "include_topic"}

\* C11: the filter removes an item exactly when an active exclude rule with a
\* non-empty pattern matches it in the field its type names, case-insensitively;
\* the other items pass unchanged and in their order.
C11_FilterRemovesExactlyMatched ==
  fnpc = "done" =>
    fnOut = SelectSeq(fnIn.items, LAMBDA x : ~Excluded(x, fnIn.store))

C11_Witness ==
  /\ fnpc = "done"
  /\ Len(fnIn.items) = 2
  /\ Len(fnOut) = 1
  /\ fnOut[1] = fnIn.items[2]
  /\ Len(fnIn.store) = 2
  /\ ~Excludes(fnIn.store[1], fnIn.items[1])
  /\ Excludes(fnIn.store[2], fnIn.items[1])
  /\ fnIn.store[2].rule_type = "exclude_source_pattern"

\* C12: the items that survive the filter are the same with the inclusion rules
\* taken out of the store.
C12_InclusionRulesHaveNoEffect ==
  fnpc = "done" =>
    fnOut = FilterByRelevance(
              fnIn.items,
              SelectSeq(fnIn.store, LAMBDA r : ~IsIncludeType(r.rule_type)))

C12_Witness ==
  /\ fnpc = "done"
  /\ Len(fnIn.items) = 2
  /\ fnOut = <<fnIn.items[2]>>
  /\ Len(fnIn.store) = 2
  /\ IsIncludeType(fnIn.store[1].rule_type)
  /\ Includes(ToLowerCase(fnIn.items[1].title), ToLowerCase(fnIn.store[1].pattern))
  /\ Includes(ToLowerCase(fnIn.items[2].title), ToLowerCase(fnIn.store[1].pattern))
  /\ Excludes(fnIn.store[2], fnIn.items[1])

-----------------------------------------------------------------------------
(* The scan handler: PHASE 1 to PHASE 3 (lines 799-883) *)

\* What a source's task can do in one scan: "ok" (fetched; for a scrape source,
\* with items extracted), "empty" (scrape fetched, nothing extracted),
\* "unparsed" (scrape fetched, DOMParser returned no document, line 184), "fail"
\* (fetchWithRetry returned success = false), "throw" (the task rejected:
\* reading the response body threw).
FetchOutcomes(src) ==
  IF src.type = "rss" THEN {"ok", "fail", "throw"}
                      ELSE {"ok", "empty", "unparsed", "fail", "throw"}

\* lines 130-317: what scrapeWebsite returns to fetchScrapeSite
ScrapeWebsite(outcome, items) ==
  CASE outcome = "fail" -> [items |-> <<>>, error |-> "HTTP 503", retries |-> 3]
    [] outcome = "unparsed" -> [items |-> <<>>, error |-> "Failed to parse HTML", retries |-> 1]
    [] outcome = "empty" -> [items |-> <<>>, error |-> AbsentStr, retries |-> 1]
    [] OTHER -> [items |-> items, error |-> AbsentStr, retries |-> 1]

\* lines 469-498 and 503-529: the health object the task returns
HealthOf(src, outcome, items, t) ==
  LET base == [source_url |-> src.url, source_type |-> src.type, last_check |-> t,
               status |-> "failing", last_success |-> AbsentNum,
               items_fetched |-> AbsentNum, error_message |-> AbsentStr,
               consecutive_failures |-> AbsentNum, retries_used |-> 1]
      healthy == [base EXCEPT !.status = "healthy", !.last_success = t,
                              !.items_fetched = Len(items), !.consecutive_failures = 0]
  IN  IF src.type = "rss"
        THEN IF outcome = "ok" THEN healthy
             ELSE [base EXCEPT !.status = "failing", !.error_message = "HTTP 503",
                               !.retries_used = 3]
        ELSE LET scraped == ScrapeWebsite(outcome, items)
             IN  IF scraped.error # AbsentStr
                   THEN [base EXCEPT !.status = "failing",
                                     !.error_message = scraped.error,
                                     !.retries_used = scraped.retries]
                 ELSE IF Len(scraped.items) > 0 THEN healthy
                 ELSE [base EXCEPT !.status = "degraded",
                                   !.error_message = "No items found"]

\* The settled task of source k: its outcome and, for "ok", its items.
TaskResults(k, outcomes, itemSets) ==
  LET src == HSources[k]
      some == { q \in itemSets : q # <<>> }
  IN  [outcome : outcomes \ {"ok"}, items : { <<>> }]
        \cup [outcome : outcomes \cap {"ok"},
              items : IF src.type = "rss" THEN itemSets ELSE some]

\* lines 812-834: the health objects of the fulfilled tasks, RSS first
RECURSIVE CollectHealth(_, _, _)
CollectHealth(ins, k, t) ==
  IF k > Len(HSources) THEN <<>>
  ELSE IF ins[k].outcome \in {"throw", "skipped"} THEN CollectHealth(ins, k + 1, t)
  ELSE <<HealthOf(HSources[k], ins[k].outcome, ins[k].items, t)>>
         \o CollectHealth(ins, k + 1, t)

\* lines 818-820 and 830-832: the error strings PHASE 1 pushes
RECURSIVE CollectErrors(_, _)
CollectErrors(ins, k) ==
  IF k > Len(HSources) THEN <<>>
  ELSE IF ins[k].outcome \in {"fail", "unparsed"}
    THEN <<[kind |-> "source error", about |-> k]>> \o CollectErrors(ins, k + 1)
  ELSE IF ins[k].outcome = "throw"
    THEN <<[kind |-> "task rejected", about |-> k]>> \o CollectErrors(ins, k + 1)
  ELSE CollectErrors(ins, k + 1)

\* SourceHealth.update(id, patch): the fields the patch has replace the record's
MergePatch(prev, patch) ==
  [source_url |-> patch.source_url,
   source_type |-> patch.source_type,
   last_check |-> patch.last_check,
   status |-> patch.status,
   last_success |->
     IF patch.last_success # AbsentNum THEN patch.last_success ELSE prev.last_success,
   items_fetched |->
     IF patch.items_fetched # AbsentNum THEN patch.items_fetched ELSE prev.items_fetched,
   error_message |->
     IF patch.error_message # AbsentStr THEN patch.error_message ELSE prev.error_message,
   consecutive_failures |->
     IF patch.consecutive_failures # AbsentNum THEN patch.consecutive_failures
                                                ELSE prev.consecutive_failures,
   retries_used |-> patch.retries_used]

MutConsecutiveFailures(status, prevFailures) ==
  IF status = "failing"
    THEN (IF prevFailures = AbsentNum THEN 0 ELSE prevFailures) + 1
    ELSE IF prevFailures = AbsentNum THEN 0 ELSE prevFailures

\* lines 856-858
ConsecutiveFailures(status, prevFailures) ==
  IF status = "failing"
    THEN (IF prevFailures = AbsentNum THEN 0 ELSE prevFailures) + 1
    ELSE 0

\* SourceHealth.filter({ source_url }): the ids of the matching records
MatchingIds(url) == { i \in 1..Len(healthStore) : healthStore[i].source_url = url }

FirstId(ids) == CHOOSE i \in ids : \A j \in ids : i <= j

SourceIndex(url) == CHOOSE k \in SourceIds : HSources[k].url = url

\* Does a store record stand for the item (the test of lines 1192-1195)
StandsFor(record, item) ==
  FindOriginal(<<item>>, [title |-> record.title, source_url |-> record.source_url]) # 0

\* A call on a store or on the classifier returns (ok) or throws.
Call(ok) ==
  /\ ok \/ faults < MaxFaults
  /\ faults' = IF ok THEN faults ELSE faults + 1

\* The record was created from the item: the save loop found the item as the
\* update's original and took the record's source name from it.
PersistedFrom(record, item) == StandsFor(record, item) /\ record.source = item.source

\* body.selectedSourceIds of the request: not given, or an array of ids
NoSelection == [given |-> FALSE, ids |-> <<>>]
SelectionOf(ids) == [given |-> TRUE, ids |-> ids]

\* The selectedSourceIds local when it is null
NullSelection == [isNull |-> TRUE, ids |-> <<>>]

\* lines 693-704: the local is the body's array when that is a non-empty array
SelectedSourceIds(body) ==
  IF body.given /\ Len(body.ids) > 0 THEN [isNull |-> FALSE, ids |-> body.ids]
                                     ELSE NullSelection

\* line 716: ComplianceSource.filter({ is_active: true })
ActiveSources(store) == SelectSeq(store, LAMBDA source : source.is_active)

MutKeepsSource(feed, ids) ==
  \/ \E id \in Range(ids) \cap StaticSourceIds : StaticSourceIdMap(id) = feed.name

\* lines 774-794: the filter callbacks; selectedStaticNames holds the names the
\* map gives for the selected ids, and a feed without id is in no set of ids
KeepsSource(feed, ids) ==
  \/ \E id \in Range(ids) \cap StaticSourceIds : StaticSourceIdMap(id) = feed.name
  \/ feed.id # AbsentStr /\ feed.id \in Range(ids)

\* lines 711-797: PHASE 0 and the selection; customSources is what the lookup
\* returned, or empty when it threw (lines 737-739)
CollectSources(selected, customSources) ==
  LET dynamic == [i \in 1..Len(customSources) |-> DynamicSource(customSources[i])]
      allRssFeeds ==
        RSS_FEEDS \o SelectSeq(dynamic, LAMBDA feed : feed.type = "rss")
      allScrapeConfigs ==
        SCRAPE_CONFIGS \o SelectSeq(dynamic, LAMBDA feed : feed.type = "scrape")
  IN  IF selected.isNull
        THEN allRssFeeds \o allScrapeConfigs
        ELSE SelectSeq(allRssFeeds, LAMBDA feed : KeepsSource(feed, selected.ids))
               \o SelectSeq(allScrapeConfigs, LAMBDA feed : KeepsSource(feed, selected.ids))

\* How the three lookups of a scan went: "none" (not made yet), "ok", "failed"
NoLookups == [sources |-> "none", profile |-> "none", rules |-> "none"]

LookupResult(ok) == IF ok THEN "ok" ELSE "failed"

\* lines 685-797: a request arrives; the body is read, the custom sources are
\* looked up (ok = FALSE when ComplianceSource.filter throws) and the sources
\* to fetch are selected.
ScanCollectSources(p, body, store, ok) ==
  LET selected == SelectedSourceIds(body)
  IN
  /\ pc[p] = "idle"
  /\ runs' = runs + 1
  /\ runId' = [runId EXCEPT ![p] = runs + 1]
  /\ requeryLen' = Append(requeryLen, 0)
  /\ selectedSourceIds' = [selectedSourceIds EXCEPT ![p] = selected]
  /\ lookups' = [lookups EXCEPT ![p] = [NoLookups EXCEPT !.sources = LookupResult(ok)]]
  /\ allSources' = [allSources EXCEPT ![p] =
       CollectSources(selected, IF ok THEN ActiveSources(store) ELSE <<>>)]
  /\ pc' = [pc EXCEPT ![p] = "fetch"]
  /\ UNCHANGED <<allItems, feedContent, relevanceRules, updates, existingTitlesForSave,
                 existingUrlsForSave, savedTitlesThisBatch, savedUrlsThisBatch, idx, errors,
                 response, updateStore, ruleStore, pendingRuleUpdates, knownAtStart,
                 savedUpdates, createdBy, queryFailed, faults>>
  /\ UNCHANGED <<enrichTasks, llmCalls, analysisResults, analysisOrder, companyContext>>
  /\ UNCHANGED healthVars

\* The sources of the scan, as indices of HSources
Fetched(p) == { SourceIndex(allSources[p][i].url) : i \in 1..Len(allSources[p]) }

\* lines 799-834: PHASE 1; the task of every source of allRssFeeds and
\* allScrapeConfigs settles, the items and the health objects of the fulfilled
\* tasks are collected. A source that is not in the lists has no task
\* ("skipped").
ScanFetch(p, ins) ==
  LET items == Concat([i \in 1..Len(allSources[p]) |->
                         ins[SourceIndex(allSources[p][i].url)].items], 1)
  IN
  /\ pc[p] = "fetch"
  /\ \A k \in SourceIds : ins[k].outcome = "skipped" <=> k \notin Fetched(p)
  /\ UNCHANGED <<runs, runId, requeryLen>>
  /\ allItems' = [allItems EXCEPT ![p] = items]
  /\ knownAtStart' = [knownAtStart EXCEPT ![p] =
       { x \in Range(items) : \E i \in 1..Len(updateStore) : PersistedFrom(updateStore[i], x) }]
  /\ sourceHealthUpdates' = [sourceHealthUpdates EXCEPT ![p] = CollectHealth(ins, 1, runId[p])]
  /\ hOutcome' = [hOutcome EXCEPT ![p] =
       [k \in SourceIds |-> [fetch |-> ins[k].outcome, upsert |-> "none"]]]
  /\ errors' = [errors EXCEPT ![p] = CollectErrors(ins, 1)]
  /\ hTask' = [hTask EXCEPT ![p] = <<>>]
  /\ feedContent' = [feedContent EXCEPT ![p] = <<>>]
  /\ relevanceRules' = [relevanceRules EXCEPT ![p] = <<>>]
  /\ updates' = [updates EXCEPT ![p] = <<>>]
  /\ existingTitlesForSave' = [existingTitlesForSave EXCEPT ![p] = {}]
  /\ existingUrlsForSave' = [existingUrlsForSave EXCEPT ![p] = {}]
  /\ savedTitlesThisBatch' = [savedTitlesThisBatch EXCEPT ![p] = {}]
  /\ savedUrlsThisBatch' = [savedUrlsThisBatch EXCEPT ![p] = {}]
  /\ savedUpdates' = [savedUpdates EXCEPT ![p] = <<>>]
  /\ idx' = [idx EXCEPT ![p] = 1]
  /\ UNCHANGED response
  /\ pc' = [pc EXCEPT ![p] = "dedupe"]
  /\ UNCHANGED <<updateStore, ruleStore, pendingRuleUpdates, createdBy, queryFailed,
                 healthStore, failStreak, hStoreFailed>>
  /\ UNCHANGED faults
  /\ UNCHANGED taskVars

\* lines 836-839: PHASE 2; queryOk = FALSE when RegulatoryUpdate.filter throws
\* (it is only called when the batch-deduplicated list is not empty)
ScanDedupe(p, queryOk) ==
  /\ pc[p] = "dedupe"
  /\ IF BatchDeduped(allItems[p]) = <<>> THEN queryOk /\ UNCHANGED faults ELSE Call(queryOk)
  /\ allItems' = [allItems EXCEPT ![p] = DeduplicateItems(allItems[p], updateStore, queryOk)]
  /\ queryFailed' = (queryFailed \/ ~queryOk)
  /\ pc' = [pc EXCEPT ![p] = "enrich"]
  /\ UNCHANGED <<feedContent, relevanceRules, updates, existingTitlesForSave,
                 existingUrlsForSave, savedTitlesThisBatch, savedUrlsThisBatch, idx, errors,
                 response, updateStore, ruleStore, pendingRuleUpdates, runs, runId, knownAtStart, requeryLen, savedUpdates, createdBy>>
  /\ UNCHANGED healthVars
  /\ UNCHANGED taskVars

MutHasPage(item) == item.link # <<>>

\* line 534: without an http link the task returns before any fetch
HasPage(item) == item.link # <<>> /\ StartsWith(item.link, <<"h">>)

\* The text enrichArticleContent extracts from an article page.
PageContent == <<"b">>
WeakDescription == 150

\* lines 533-615: enrichArticleContent; fetchedOk = FALSE when the page fetch or
\* the extraction fails, and then the item is returned as it is
EnrichArticleContent(item, fetchedOk) ==
  IF ~HasPage(item) THEN item
  ELSE IF ~fetchedOk THEN item
  ELSE [item EXCEPT !.fullContent = PageContent,
                    !.description = IF Len(item.description) < WeakDescription
                                      THEN PageContent \o <<".">>
                                      ELSE item.description]

MutEnrichAll(items, oks) ==
  [i \in 1..Len(items) |->
     IF i <= Len(oks) /\ \A j \in 1..i : oks[j]
       THEN EnrichArticleContent(items[i], oks[i]) ELSE items[i]]

\* lines 846-848: task i works on item i and changes it in place; the tasks'
\* results are awaited with Promise.allSettled and dropped
EnrichAll(items, oks) ==
  [i \in 1..Len(items) |->
     IF i <= Len(oks) THEN EnrichArticleContent(items[i], oks[i]) ELSE items[i]]

\* lines 841-848: PHASE 2.5, one task per item of allItems.slice(0, 15); oks[i]
\* tells how the page fetch of task i went
ScanEnrich(p, oks) ==
  /\ pc[p] = "enrich"
  /\ Len(oks) = Len(Take(allItems[p], EnrichCap))
  /\ allItems' = [allItems EXCEPT ![p] = EnrichAll(allItems[p], oks)]
  /\ enrichTasks' = [enrichTasks EXCEPT ![p] = oks]
  /\ UNCHANGED <<llmCalls, analysisResults, analysisOrder, requestVars>>
  /\ hTask' = [hTask EXCEPT ![p] =
       [k \in 1..Len(sourceHealthUpdates[p]) |->
          [st |-> "start", found |-> FALSE, id |-> 0, prevFailures |-> AbsentNum]]]
  /\ pc' = [pc EXCEPT ![p] = "health"]
  /\ UNCHANGED <<feedContent, relevanceRules, updates, existingTitlesForSave,
                 existingUrlsForSave, savedTitlesThisBatch, savedUrlsThisBatch, idx, errors,
                 response, updateStore, ruleStore, pendingRuleUpdates, runs, runId, knownAtStart, requeryLen, savedUpdates, createdBy,
                 queryFailed>>
  /\ UNCHANGED <<healthStore, sourceHealthUpdates, hOutcome, failStreak, hStoreFailed>>
  /\ UNCHANGED faults

\* line 853: one task's SourceHealth.filter; ok = FALSE when it throws (line 866)
HealthFilter(p, k, ok) ==
  LET health == sourceHealthUpdates[p][k]
      ids == MatchingIds(health.source_url)
      src == SourceIndex(health.source_url)
  IN
  /\ pc[p] = "health"
  /\ hTask[p][k].st = "start"
  /\ ok \/ hStoreFailed < MaxHealthFaults
  /\ IF ok
       THEN /\ hTask' = [hTask EXCEPT ![p][k] =
                 IF ids # {}
                   THEN [st |-> "filtered", found |-> TRUE, id |-> FirstId(ids),
                         prevFailures |-> healthStore[FirstId(ids)].consecutive_failures]
                   ELSE [st |-> "filtered", found |-> FALSE, id |-> 0,
                         prevFailures |-> AbsentNum]]
            /\ UNCHANGED <<hOutcome, hStoreFailed>>
       ELSE /\ hTask' = [hTask EXCEPT ![p][k].st = "done"]
            /\ hOutcome' = [hOutcome EXCEPT ![p][src].upsert = "failed"]
            /\ hStoreFailed' = hStoreFailed + 1
  /\ UNCHANGED <<healthStore, sourceHealthUpdates, failStreak>>
  /\ UNCHANGED scanVars

\* lines 854-865: the task's SourceHealth.update or SourceHealth.create
HealthWrite(p, k, ok) ==
  LET health == sourceHealthUpdates[p][k]
      src == SourceIndex(health.source_url)
      consecutiveFailures == ConsecutiveFailures(health.status, hTask[p][k].prevFailures)
  IN
  /\ pc[p] = "health"
  /\ hTask[p][k].st = "filtered"
  /\ ok \/ hStoreFailed < MaxHealthFaults
  /\ hTask' = [hTask EXCEPT ![p][k].st = "done"]
  /\ IF ok
       THEN /\ healthStore' =
                 IF hTask[p][k].found
                   THEN [healthStore EXCEPT ![hTask[p][k].id] =
                           MergePatch(@, [health EXCEPT
                                            !.consecutive_failures = consecutiveFailures])]
                   ELSE Append(healthStore, health)
            /\ hOutcome' = [hOutcome EXCEPT ![p][src].upsert =
                              IF hTask[p][k].found THEN "updated" ELSE "created"]
            /\ UNCHANGED hStoreFailed
       ELSE /\ hOutcome' = [hOutcome EXCEPT ![p][src].upsert = "failed"]
            /\ hStoreFailed' = hStoreFailed + 1
            /\ UNCHANGED healthStore
  /\ UNCHANGED <<sourceHealthUpdates, failStreak>>
  /\ UNCHANGED scanVars

\* response[p] is the last response the slot has sent; none before its first.
NoResponse ==
  [status |-> 0, success |-> FALSE, saved |-> 0, error |-> AbsentStr,
   execution_time_ms |-> AbsentStr]

\* lines 873-883 and 1247-1270: Response.json without a status, that is 200;
\* execution_time_ms is Date.now() - startTime, written "elapsed"
Success(saved) ==
  [status |-> 200, success |-> TRUE, saved |-> saved, error |-> AbsentStr,
   execution_time_ms |-> "elapsed"]

MutServerError(message) == Success(0)

\* lines 1272-1277: the response of the handler's catch
ServerError(message) ==
  [status |-> 500, success |-> FALSE, saved |-> 0, error |-> message,
   execution_time_ms |-> "elapsed"]

\* The handler returns: the response goes out and the invocation's locals are gone.
Respond(p, resp) ==
  /\ response' = [response EXCEPT ![p] = resp]
  /\ pc' = [pc EXCEPT ![p] = "idle"]
  /\ allItems' = [allItems EXCEPT ![p] = <<>>]
  /\ feedContent' = [feedContent EXCEPT ![p] = <<>>]
  /\ relevanceRules' = [relevanceRules EXCEPT ![p] = <<>>]
  /\ updates' = [updates EXCEPT ![p] = <<>>]
  /\ existingTitlesForSave' = [existingTitlesForSave EXCEPT ![p] = {}]
  /\ existingUrlsForSave' = [existingUrlsForSave EXCEPT ![p] = {}]
  /\ savedTitlesThisBatch' = [savedTitlesThisBatch EXCEPT ![p] = {}]
  /\ savedUrlsThisBatch' = [savedUrlsThisBatch EXCEPT ![p] = {}]
  /\ savedUpdates' = [savedUpdates EXCEPT ![p] = <<>>]
  /\ idx' = [idx EXCEPT ![p] = 1]
  /\ errors' = [errors EXCEPT ![p] = <<>>]
  /\ knownAtStart' = [knownAtStart EXCEPT ![p] = {}]
  /\ sourceHealthUpdates' = [sourceHealthUpdates EXCEPT ![p] = <<>>]
  /\ hTask' = [hTask EXCEPT ![p] = <<>>]
  /\ enrichTasks' = [enrichTasks EXCEPT ![p] = <<>>]
  /\ llmCalls' = [llmCalls EXCEPT ![p] = 0]
  /\ analysisResults' = [analysisResults EXCEPT ![p] = <<>>]
  /\ analysisOrder' = [analysisOrder EXCEPT ![p] = <<>>]
  /\ selectedSourceIds' = [selectedSourceIds EXCEPT ![p] = NullSelection]
  /\ allSources' = [allSources EXCEPT ![p] = <<>>]
  /\ lookups' = [lookups EXCEPT ![p] = NoLookups]
  /\ companyContext' = [companyContext EXCEPT ![p] = <<>>]
  /\ UNCHANGED <<updateStore, ruleStore, pendingRuleUpdates, runs, runId, requeryLen,
                 createdBy, queryFailed, healthStore, hOutcome, hStoreFailed>>

MutHealthTasksSettled(p) == \E k \in 1..Len(hTask[p]) : hTask[p][k].st # "start"

\* line 871: every task of healthUpdatePromises has settled
HealthTasksSettled(p) == \A k \in 1..Len(hTask[p]) : hTask[p][k].st = "done"

MutHealthSettled(p) ==
  /\ pc[p] = "health"
  /\ UNCHANGED faults
  /\ HealthTasksSettled(p)
  /\ failStreak' = [k \in SourceIds |->
                      IF hOutcome[p][k].fetch = "skipped" THEN failStreak[k]
                      ELSE IF hOutcome[p][k].fetch \in {"fail", "unparsed"}
                        THEN failStreak[k] + 1 ELSE 0]
  /\ feedContent' = [feedContent EXCEPT ![p] = Take(allItems[p], FeedContentCap)]
  /\ pc' = [pc EXCEPT ![p] = "rules"]
  /\ UNCHANGED <<allItems, relevanceRules, updates,
                 existingTitlesForSave, existingUrlsForSave, savedTitlesThisBatch,
                 savedUrlsThisBatch, idx, errors, response, updateStore, ruleStore,
                 pendingRuleUpdates, runs, runId, knownAtStart,
                 requeryLen, savedUpdates, createdBy, queryFailed>>
  /\ UNCHANGED <<healthStore, sourceHealthUpdates, hTask, hOutcome, hStoreFailed>>
  /\ UNCHANGED taskVars

\* lines 871-913: Promise.allSettled(healthUpdatePromises) resolves. With no item
\* left the handler responds; otherwise the text given to the classifier is
\* built from the first 50 items of allItems as it is now (line 895), and the
\* company profile, which only words the prompt, is asked for.
HealthSettled(p) ==
  /\ pc[p] = "health"
  /\ UNCHANGED faults
  /\ HealthTasksSettled(p)
  /\ failStreak' = [k \in SourceIds |->
                      IF hOutcome[p][k].fetch = "skipped" THEN failStreak[k]
                      ELSE IF hOutcome[p][k].fetch \in {"fail", "unparsed"}
                        THEN failStreak[k] + 1 ELSE 0]
  /\ IF allItems[p] = <<>>
       THEN Respond(p, Success(0))
       ELSE /\ feedContent' = [feedContent EXCEPT ![p] = Take(allItems[p], FeedContentCap)]
            /\ pc' = [pc EXCEPT ![p] = "rules"]
            /\ UNCHANGED <<allItems, relevanceRules, updates,
                           existingTitlesForSave, existingUrlsForSave, savedTitlesThisBatch,
                           savedUrlsThisBatch, idx, errors, response, updateStore, ruleStore,
                           pendingRuleUpdates, runs, runId, knownAtStart,
                           requeryLen, savedUpdates, createdBy, queryFailed>>
            /\ UNCHANGED <<healthStore, sourceHealthUpdates, hTask, hOutcome, hStoreFailed>>
            /\ UNCHANGED taskVars

-----------------------------------------------------------------------------
(* The scan handler: PHASE 4 to the response (lines 885-1278) *)

\* lines 975-976: the company the prompt speaks of when there is no profile
GenericContext == <<"B2B SaaS technology", "headquartered in Israel">>

\* line 980: the company the prompt speaks of when there is a profile
ProfileContext(profile) ==
  <<OrElse(profile.business_model, "B2B"), OrElse(profile.industry, "SaaS/Software")>>

MutCompanyContext(profiles, ok) == ProfileContext(profiles[1])

\* lines 904-913 and 975-981: companyProfile is the first profile of the lookup,
\* null when there is none or when CompanyProfile.filter threw (ok = FALSE)
CompanyContext(profiles, ok) ==
  IF ok /\ Len(profiles) > 0 THEN ProfileContext(profiles[1]) ELSE GenericContext

\* lines 904-994: the company profile lookup, then PHASE 4.5; profileOk = FALSE
\* when CompanyProfile.filter throws, ok = FALSE when RelevanceRule.filter
\* throws. The usage updates are issued and not awaited.
ScanFilterByRules(p, profiles, profileOk, ok) ==
  LET rules == IF ok THEN ActiveRules(ruleStore, 1) ELSE <<>>
      kept == KeptByRules(allItems[p], rules, 1)
  IN
  /\ pc[p] = "rules"
  /\ Call(ok)
  /\ companyContext' = [companyContext EXCEPT ![p] = CompanyContext(profiles, profileOk)]
  /\ lookups' = [lookups EXCEPT ![p].profile = LookupResult(profileOk),
                                ![p].rules = LookupResult(ok)]
  /\ UNCHANGED <<enrichTasks, llmCalls, analysisResults, analysisOrder, selectedSourceIds,
                 allSources>>
  /\ relevanceRules' = [relevanceRules EXCEPT ![p] = rules]
  /\ allItems' = [allItems EXCEPT ![p] = kept]
  /\ pendingRuleUpdates' = pendingRuleUpdates \o RuleUpdatesIssued(allItems[p], rules, 1)
  /\ pc' = [pc EXCEPT ![p] = "classify"]
  /\ UNCHANGED <<feedContent, updates, existingTitlesForSave, existingUrlsForSave,
                 savedTitlesThisBatch, savedUrlsThisBatch, idx, errors, response,
                 updateStore, ruleStore, runs, runId, knownAtStart, requeryLen, savedUpdates, createdBy, queryFailed>>
  /\ UNCHANGED healthVars

\* q without its k-th element
Without(q, k) == SubSeq(q, 1, k - 1) \o SubSeq(q, k + 1, Len(q))

\* lines 958-960: a RelevanceRule.update issued by the filter, the k-th of those
\* in flight, reaches the store (ok) or is rejected and the rejection swallowed.
\* The calls are not awaited: they settle in any order, at any later time.
RuleUpdateLands(k, ok) ==
  LET u == pendingRuleUpdates[k]
  IN
  /\ k \in 1..Len(pendingRuleUpdates)
  /\ Call(ok)
  /\ pendingRuleUpdates' = Without(pendingRuleUpdates, k)
  /\ ruleStore' = IF ok THEN [ruleStore EXCEPT ![u.id].times_applied = u.times_applied]
                        ELSE ruleStore
  /\ UNCHANGED <<pc, allItems, feedContent, relevanceRules, updates, existingTitlesForSave,
                 existingUrlsForSave, savedTitlesThisBatch, savedUrlsThisBatch, idx, errors,
                 response, updateStore, runs, runId, knownAtStart, requeryLen, savedUpdates, createdBy, queryFailed>>
  /\ UNCHANGED healthVars
  /\ UNCHANGED taskVars

\* lines 996-1167: InvokeLLM with feedContent in the prompt; ok = FALSE when it
\* throws, which the handler's catch turns into a 500 response (lines 1272-1277).
MutAllSettled(results) == \E j \in 1..Len(results) : results[j] # "pending"

\* line 1166: Promise.all(analysisPromises) resolves when no task is pending
AllSettled(results) == \A j \in 1..Len(results) : results[j] # "pending"

MutNeedsAnalysis(update) == update.update_type = "Ruling"

\* line 1121: the updates for which the second InvokeLLM call is made
NeedsAnalysis(update) == update.update_type \in {"Ruling", "Enforcement"}

\* On its return one secondary analysis is started per update (lines 1120-1163):
\* for an update that is neither a Ruling nor an Enforcement it is null at once,
\* for the others the handler awaits a second InvokeLLM call each (line 1166).
ScanClassify(p, ups, ok) ==
  LET started == [i \in 1..Len(ups) |-> IF NeedsAnalysis(ups[i]) THEN "pending" ELSE "null"]
  IN
  /\ pc[p] = "classify"
  /\ Call(ok)
  /\ IF ok
       THEN /\ updates' = [updates EXCEPT ![p] = ups]
            /\ llmCalls' = [llmCalls EXCEPT ![p] = @ + 1]
            /\ analysisResults' = [analysisResults EXCEPT ![p] = started]
            /\ analysisOrder' = [analysisOrder EXCEPT ![p] = <<>>]
            /\ UNCHANGED <<enrichTasks, requestVars>>
            /\ pc' = [pc EXCEPT ![p] = IF AllSettled(started) THEN "requery"
                                                               ELSE "analyses"]
            /\ UNCHANGED <<allItems, feedContent, relevanceRules, existingTitlesForSave,
                           existingUrlsForSave, savedTitlesThisBatch, savedUrlsThisBatch,
                           idx, errors, response, updateStore, ruleStore, pendingRuleUpdates,
                           runs, runId, knownAtStart, requeryLen,
                           savedUpdates, createdBy, queryFailed>>
            /\ UNCHANGED healthVars
       ELSE /\ Respond(p, ServerError("InvokeLLM failed"))
            /\ UNCHANGED failStreak

\* lines 1121-1166: the secondary analysis of update i settles. Its result is
\* "analysed" when the call returns an object that says the update is a final
\* decision or an enforcement and fills the analysis fields, "declined" when
\* the object says it is not and carries nothing else, "null" when the call
\* throws and the task's catch returns null. Promise.all resolves when the last
\* one has settled.
ScanAnalysisSettles(p, i, outcome) ==
  LET settled == [analysisResults[p] EXCEPT ![i] = outcome]
  IN
  /\ pc[p] = "analyses"
  /\ i \in 1..Len(analysisResults[p])
  /\ analysisResults[p][i] = "pending"
  /\ analysisResults' = [analysisResults EXCEPT ![p] = settled]
  /\ analysisOrder' = [analysisOrder EXCEPT ![p] = Append(@, i)]
  /\ pc' = [pc EXCEPT ![p] = IF AllSettled(settled) THEN "requery" ELSE "analyses"]
  /\ UNCHANGED <<allItems, feedContent, relevanceRules, updates, existingTitlesForSave,
                 existingUrlsForSave, savedTitlesThisBatch, savedUrlsThisBatch, idx, errors,
                 response, updateStore, ruleStore, pendingRuleUpdates, runs, runId,
                 knownAtStart, requeryLen, savedUpdates, createdBy, queryFailed, faults,
                 enrichTasks, llmCalls, requestVars>>
  /\ UNCHANGED healthVars

MutScanFinalQuery(p, ok) ==
  /\ pc[p] = "requery"
  /\ Call(ok)
  /\ existingTitlesForSave' = [existingTitlesForSave EXCEPT ![p] = TitleKeys(updateStore)]
  /\ existingUrlsForSave' = [existingUrlsForSave EXCEPT ![p] = UrlKeys(updateStore)]
  /\ requeryLen' = [requeryLen EXCEPT ![runId[p]] = IF ok THEN Len(updateStore) ELSE 0]
  /\ queryFailed' = (queryFailed \/ ~ok)
  /\ savedTitlesThisBatch' = [savedTitlesThisBatch EXCEPT ![p] = {}]
  /\ savedUrlsThisBatch' = [savedUrlsThisBatch EXCEPT ![p] = {}]
  /\ idx' = [idx EXCEPT ![p] = 1]
  /\ pc' = [pc EXCEPT ![p] = "persist"]
  /\ UNCHANGED <<allItems, feedContent, relevanceRules, updates, errors, response,
                 updateStore, ruleStore, pendingRuleUpdates, runs, runId, knownAtStart, savedUpdates, createdBy>>
  /\ UNCHANGED healthVars
  /\ UNCHANGED taskVars

\* lines 1170-1182: the re-query before saving; ok = FALSE when it throws and
\* both sets stay empty
ScanFinalQuery(p, ok) ==
  /\ pc[p] = "requery"
  /\ Call(ok)
  /\ existingTitlesForSave' = [existingTitlesForSave EXCEPT ![p] =
                                 IF ok THEN TitleKeys(updateStore) ELSE {}]
  /\ existingUrlsForSave' = [existingUrlsForSave EXCEPT ![p] =
                               IF ok THEN UrlKeys(updateStore) ELSE {}]
  /\ requeryLen' = [requeryLen EXCEPT ![runId[p]] = IF ok THEN Len(updateStore) ELSE 0]
  /\ queryFailed' = (queryFailed \/ ~ok)
  /\ savedTitlesThisBatch' = [savedTitlesThisBatch EXCEPT ![p] = {}]
  /\ savedUrlsThisBatch' = [savedUrlsThisBatch EXCEPT ![p] = {}]
  /\ idx' = [idx EXCEPT ![p] = 1]
  /\ pc' = [pc EXCEPT ![p] = "persist"]
  /\ UNCHANGED <<allItems, feedContent, relevanceRules, updates, errors, response,
                 updateStore, ruleStore, pendingRuleUpdates, runs, runId, knownAtStart, savedUpdates, createdBy>>
  /\ UNCHANGED healthVars
  /\ UNCHANGED taskVars

\* line 1117: the date of the scan
Today == "2026-11-02"

MutPushError(errs, kind, i) == errs

\* lines 1204, 1208, 1242: errors.push(...) for update i of the save loop
PushError(errs, kind, i) == Append(errs, [kind |-> kind, about |-> i])

\* lines 1187 and 1229-1234: analysisResults[i] || {}, with the defaults the
\* record takes for the fields the object does not have
AdditionalAnalysis(analysisResult) ==
  IF analysisResult = "analysed"
    THEN [is_court_decision_or_enforcement |-> TRUE, involved_parties |-> <<"FTC">>,
          enforcement_type |-> "settlement"]
    ELSE [is_court_decision_or_enforcement |-> FALSE, involved_parties |-> <<>>,
          enforcement_type |-> ""]

\* lines 1185-1245: one iteration of the save loop; createOk = FALSE when
\* RegulatoryUpdate.create throws
ScanPersistOne(p, createOk) ==
  LET update == updates[p][idx[p]]
      additionalAnalysis == AdditionalAnalysis(analysisResults[p][idx[p]])
      o == FindOriginal(allItems[p], update)
      correctSourceName == IF o # 0 THEN allItems[p][o].source ELSE update.source
      normalizedTitle == NormKey(update.title)
      normalizedUrl == NormKey(update.source_url)
      dupTitle == \/ normalizedTitle \in existingTitlesForSave[p]
                  \/ normalizedTitle \in savedTitlesThisBatch[p]
      dupUrl == /\ normalizedUrl # <<>>
                /\ \/ normalizedUrl \in existingUrlsForSave[p]
                   \/ normalizedUrl \in savedUrlsThisBatch[p]
  IN
  /\ pc[p] = "persist"
  /\ idx[p] <= Len(updates[p])
  /\ IF dupTitle \/ dupUrl THEN createOk /\ UNCHANGED faults ELSE Call(createOk)
  /\ idx' = [idx EXCEPT ![p] = @ + 1]
  /\ IF dupTitle \/ dupUrl
       THEN /\ errors' = [errors EXCEPT ![p] = PushError(@, "skipped duplicate", idx[p])]
            /\ UNCHANGED <<updateStore, createdBy, savedTitlesThisBatch, savedUrlsThisBatch,
                           savedUpdates>>
       ELSE IF createOk
         THEN LET saved == [title |-> update.title, source |-> correctSourceName,
                            source_url |-> update.source_url,
                            domain |-> update.domain,
                            jurisdiction |-> update.jurisdiction,
                            risk_score |-> update.risk_score,
                            summary |-> update.summary,
                            update_type |-> OrElse(update.update_type, "Regulatory"),
                            publish_date |-> OrElse(update.publish_date, Today),
                            is_court_decision_or_enforcement |->
                              additionalAnalysis.is_court_decision_or_enforcement,
                            involved_parties |-> additionalAnalysis.involved_parties,
                            enforcement_type |-> additionalAnalysis.enforcement_type]
              IN  /\ updateStore' = Append(updateStore, saved)
                  /\ createdBy' = Append(createdBy, runId[p])
                  /\ savedTitlesThisBatch' = [savedTitlesThisBatch EXCEPT ![p] =
                                                @ \cup {normalizedTitle}]
                  /\ savedUrlsThisBatch' = [savedUrlsThisBatch EXCEPT ![p] =
                       IF normalizedUrl # <<>> THEN @ \cup {normalizedUrl} ELSE @]
                  /\ savedUpdates' = [savedUpdates EXCEPT ![p] = Append(@, saved)]
                  /\ UNCHANGED errors
         ELSE /\ errors' = [errors EXCEPT ![p] = PushError(@, "failed to save", idx[p])]
              /\ UNCHANGED <<updateStore, createdBy, savedTitlesThisBatch,
                             savedUrlsThisBatch, savedUpdates>>
  /\ UNCHANGED <<pc, allItems, feedContent, relevanceRules, updates, existingTitlesForSave,
                 existingUrlsForSave, response, ruleStore, pendingRuleUpdates, runs, runId,
                 knownAtStart, requeryLen, queryFailed>>
  /\ UNCHANGED healthVars
  /\ UNCHANGED taskVars

\* lines 1247-1270: the success response
ScanReport(p) ==
  /\ pc[p] = "persist"
  /\ idx[p] > Len(updates[p])
  /\ Respond(p, Success(Len(savedUpdates[p])))
  /\ UNCHANGED failStreak
  /\ UNCHANGED faults

-----------------------------------------------------------------------------
(* The scan handler: specifications *)

MaxScans == 3             \* scans in a row when source health is followed

\* How the handler is invoked and what its collaborators do:
\*   "sequential"  one scan after the other; every article, every classifier
\*                 answer; every source is fetched; enrichment may fail; the
\*                 calls on the update store, the rule store and the classifier
\*                 may throw;
\*   "concurrent"  scans may overlap; the feed is empty and the scraped page
\*                 carries one article, which is enriched; the classifier
\*                 returns one update; no call throws;
\*   "health"      MaxScans scans one after the other; every outcome of a
\*                 source's task; the feed and the scraped page carry the same
\*                 article, which is enriched; the classifier returns one
\*                 update; SourceHealth calls may throw;
\*   "analyses"    one scan of the same article; the classifier returns up to
\*                 MaxAnalysed updates, Rulings and Enforcements among them;
\*                 the secondary analyses settle in any order and may fail;
\*   "bulk"        one scan; the feed carries as many articles as it takes to
\*                 reach, or pass by up to MaxOverCap, the enrichment cap or
\*                 the classification cap; at most one enrichment fails;
\*   "schema"      one scan of the same article; the classifier returns up to
\*                 MaxUpdates updates, some of which break the response schema;
\*   "lookups"     one scan; the request may select sources, the
\*                 ComplianceSource store holds custom sources, there is a
\*                 company profile, and each of the three lookups may throw;
\*   "rules"       one scan; the sources carry the articles fnIn.items and the
\*                 RelevanceRule store starts as fnIn.store, with rules of
\*                 every kind; RelevanceRule.update calls may be rejected.
Environments ==
  {"sequential", "concurrent", "health", "analyses", "bulk", "schema", "lookups", "rules"}

MaxFeedArticles == 2      \* the feed carries at most MaxFeedArticles articles when rules are followed
MaxStoredRules == 2       \* the RelevanceRule store holds at most MaxStoredRules rules then

\* Articles with distinct titles and links: two of the feed, two of the scraped
\* page.
RuleArticles ==
  { Item(<<"G", "a">>, <<"h", "g", "a">>, <<"F">>),
    Item(<<"B">>, <<"h", "b">>, <<"F">>),
    Item(<<"g">>, <<"h", "g">>, <<"S">>),
    Item(<<"A">>, <<"h", "a">>, <<"S">>) }

\* What the sources carry: the feed up to MaxFeedArticles different articles,
\* the scraped page one.
RuleItemLists ==
  { q \in SeqsUpTo(RuleArticles, MaxFeedArticles + 1) :
      /\ q # <<>>
      /\ q[Len(q)].source = <<"S">>
      /\ \A i \in 1..(Len(q) - 1) : q[i].source = <<"F">>
      /\ \A i, j \in 1..Len(q) : i # j => q[i] # q[j] }

\* Rules that match several of the articles, one of them, none; an inactive
\* rule and an inclusion rule.
StoredRules ==
  { Rule("exclude_keyword", <<"g">>, TRUE),
    Rule("exclude_source_pattern", <<"f">>, TRUE),
    Rule("exclude_title_pattern", <<"A">>, TRUE),
    Rule("exclude_topic", <<"x">>, TRUE),
    Rule("exclude_keyword", <<"a">>, FALSE),
    Rule("include_keyword", <<"b">>, TRUE) }

RuleUseInputs == [items : RuleItemLists, store : SeqsUpTo(StoredRules, MaxStoredRules)]

InitScan(e) ==
  /\ env = e
  /\ FetchIdle
  /\ DedupeIdle
  /\ IF e = "rules" THEN fnpc = "idle" /\ fnOut = <<>> /\ fnIn \in RuleUseInputs
                     ELSE FnIdle
  /\ healthStore = <<>>
  /\ sourceHealthUpdates = [p \in Slots |-> <<>>]
  /\ hTask = [p \in Slots |-> <<>>]
  /\ hOutcome = [p \in Slots |-> [k \in SourceIds |-> [fetch |-> "none", upsert |-> "none"]]]
  /\ failStreak = [k \in SourceIds |-> 0]
  /\ hStoreFailed = 0
  /\ pc = [p \in Slots |-> "idle"]
  /\ allItems = [p \in Slots |-> <<>>]
  /\ feedContent = [p \in Slots |-> <<>>]
  /\ relevanceRules = [p \in Slots |-> <<>>]
  /\ updates = [p \in Slots |-> <<>>]
  /\ existingTitlesForSave = [p \in Slots |-> {}]
  /\ existingUrlsForSave = [p \in Slots |-> {}]
  /\ savedTitlesThisBatch = [p \in Slots |-> {}]
  /\ savedUrlsThisBatch = [p \in Slots |-> {}]
  /\ idx = [p \in Slots |-> 1]
  /\ errors = [p \in Slots |-> <<>>]
  /\ response = [p \in Slots |-> NoResponse]
  /\ updateStore = <<>>
  /\ ruleStore \in (CASE e = "sequential" -> RuleStoreChoices
                       [] e = "rules" -> { fnIn.store }
                       [] OTHER -> RuleStoreChoices \ { <<>> })
  /\ pendingRuleUpdates = <<>>
  /\ runs = 0
  /\ runId = [p \in Slots |-> 0]
  /\ knownAtStart = [p \in Slots |-> {}]
  /\ requeryLen = <<>>
  /\ savedUpdates = [p \in Slots |-> <<>>]
  /\ createdBy = <<>>
  /\ queryFailed = FALSE
  /\ faults = 0
  /\ enrichTasks = [p \in Slots |-> <<>>]
  /\ llmCalls = [p \in Slots |-> 0]
  /\ analysisResults = [p \in Slots |-> <<>>]
  /\ analysisOrder = [p \in Slots |-> <<>>]
  /\ selectedSourceIds = [p \in Slots |-> NullSelection]
  /\ allSources = [p \in Slots |-> <<>>]
  /\ lookups = [p \in Slots |-> NoLookups]
  /\ companyContext = [p \in Slots |-> <<>>]

RunLimit ==
  CASE env = "health" -> MaxScans
    [] env \in {"analyses", "bulk", "schema", "lookups", "rules"} -> 1
    [] OTHER -> MaxRuns

TheArticle(k) == Item(<<"A">>, <<"h", "u">>, HSources[k].name)

\* An article that only source k carries: title and link are the source's name.
SourceArticle(k) == Item(HSources[k].name, <<"h">> \o HSources[k].name, HSources[k].name)

MaxOverCap == 2           \* a bulk scan passes a cap by at most MaxOverCap items

Digit == <<"0", "1", "2", "3", "4", "5", "6", "7", "8", "9">>

\* Article number n of a long feed: title and link carry the number.
NumberedArticle(n, src) ==
  Item(<<"N", Digit[(n \div 10) + 1], Digit[(n % 10) + 1]>>,
       <<"h", Digit[(n \div 10) + 1], Digit[(n % 10) + 1]>>, src.name)

\* The feed lengths with which the scan's items, the scraped article included,
\* number from a cap to MaxOverCap above it.
BulkSizes == { c - 1 + d : c \in {EnrichCap, FeedContentCap}, d \in 0..MaxOverCap }

\* The item lists the task of source k can return.
ItemChoices(k) ==
  CASE env = "sequential" -> SeqsUpTo(ItemsOf(HSources[k]), MaxPerSource)
    [] env = "concurrent" ->
         IF HSources[k].type = "rss" THEN { <<>> } ELSE { <<TheArticle(k)>> }
    [] env = "bulk" ->
         IF HSources[k].type = "rss"
           THEN { [i \in 1..n |-> NumberedArticle(i, HSources[k])] : n \in BulkSizes }
           ELSE { <<TheArticle(k)>> }
    [] env = "lookups" -> { <<SourceArticle(k)>> }
    [] env = "rules" -> { SelectSeq(fnIn.items, LAMBDA x : x.source = HSources[k].name) }
    [] OTHER -> { <<TheArticle(k)>> }

MaxAnalysed == 3          \* updates of a classifier answer whose analyses are followed

AnalysedUpdates ==
  { TypedUpdate(<<"A">>, <<"h", "u">>, "Ruling"),
    TypedUpdate(<<"B">>, <<"h", "v">>, "Enforcement"),
    TypedUpdate(<<"a", " ">>, <<>>, "Ruling"),
    TypedUpdate(<<"G">>, <<>>, "Regulatory") }

\* Answers that keep to response_json_schema and answers that do not: a
\* required field left out, an enum field with a value outside its enum.
SchemaUpdates ==
  { TypedUpdate(<<"A">>, <<"h", "u">>, "Ruling"),
    [TypedUpdate(<<"B">>, <<>>, "Regulatory") EXCEPT !.update_type = AbsentStr],
    [TypedUpdate(<<"B">>, <<"h", "v">>, "Regulatory") EXCEPT !.publish_date = AbsentStr],
    [TypedUpdate(<<"G">>, <<>>, "Enforcement") EXCEPT !.domain = "Tax"],
    [TypedUpdate(<<"A">>, <<"h", "v">>, "Regulatory") EXCEPT !.risk_score = "Critical"] }

\* The updates the classifier can return.
ClassifierChoices ==
  CASE env = "sequential" -> SeqsUpTo(ClassifierUpdates, MaxUpdates)
    [] env = "concurrent" ->
         { <<Update(<<"A">>, <<"h", "u">>)>>,
           <<TypedUpdate(<<"a", " ">>, <<>>, "Enforcement")>> }
    [] env = "analyses" -> SeqsUpTo(AnalysedUpdates, MaxAnalysed)
    [] env = "schema" -> SeqsUpTo(SchemaUpdates, MaxUpdates)
    [] OTHER -> { <<TypedUpdate(<<"A">>, <<"h", "u">>, "Ruling")>> }

\* The outcomes of the task of source k.
OutcomeChoices(k) ==
  IF env = "health" THEN FetchOutcomes(HSources[k]) ELSE {"ok"}

\* Whether the page of an article is fetched and its text extracted.
EnrichOks == IF env = "sequential" THEN BOOLEAN ELSE {TRUE}

\* How the page fetches of n enrichment tasks go.
EnrichChoices(n) ==
  IF env = "bulk" THEN { [i \in 1..n |-> i # f] : f \in {0, 1, n} }
                  ELSE [1..n -> EnrichOks]

\* How the tasks of the items to enrich go: only a task that fetches can fail.
EnrichOutcomes(itemsToEnrich) ==
  { oks \in EnrichChoices(Len(itemsToEnrich)) :
      \A i \in 1..Len(itemsToEnrich) : HasPage(itemsToEnrich[i]) \/ oks[i] }

\* How a secondary analysis call ends.
AnalysisOutcomes ==
  IF env = "analyses" THEN {"analysed", "declined", "null"} ELSE {"analysed"}

\* Whether a SourceHealth call returns.
HealthStoreOks == IF env = "health" THEN BOOLEAN ELSE {TRUE}

\* Whether a RegulatoryUpdate, RelevanceRule or InvokeLLM call returns.
PipelineOks == IF env = "sequential" THEN BOOLEAN ELSE {TRUE}

\* What the tasks of the scan's sources can settle to.
FetchInputs(p) ==
  LET results(k) == TaskResults(k, OutcomeChoices(k), ItemChoices(k))
      settled == { f \in [Fetched(p) -> UNION { results(k) : k \in Fetched(p) }] :
                     \A k \in Fetched(p) : f[k] \in results(k) }
  IN  { [k \in SourceIds |-> IF k \in Fetched(p) THEN f[k]
                             ELSE [outcome |-> "skipped", items |-> <<>>]] :
          f \in settled }

\* The selections a request can carry.
BodyChoices ==
  IF env = "lookups"
    THEN { NoSelection, SelectionOf(<<>>), SelectionOf(<<"ftc">>), SelectionOf(<<"d1">>),
           SelectionOf(<<"skadden", "d1">>), SelectionOf(<<"d2", "x">>) }
    ELSE { NoSelection }

\* The ComplianceSource store.
ComplianceSourceStore == IF env = "lookups" THEN CustomSources ELSE <<>>

\* Whether a ComplianceSource or CompanyProfile call returns.
LookupOks == IF env = "lookups" THEN BOOLEAN ELSE {TRUE}

\* Whether the RelevanceRule lookup returns.
RuleLookupOks == IF env \in {"sequential", "lookups"} THEN BOOLEAN ELSE {TRUE}

\* A request reaches the handler. Scans overlap only in the concurrent environment.
Start ==
  \E p \in (IF env = "concurrent" THEN Slots ELSE {1}) :
    /\ env = "concurrent" \/ \A q \in Slots : pc[q] = "idle"
    /\ runs < RunLimit
    /\ \E body \in BodyChoices, ok \in LookupOks :
         ScanCollectSources(p, body, ComplianceSourceStore, ok)
    /\ UNCHANGED <<env, fetchVars, dedupeVars, fnVars>>

FetchAll ==
  \E p \in Slots :
    /\ pc[p] = "fetch"
    /\ \E ins \in FetchInputs(p) : ScanFetch(p, ins)
    /\ UNCHANGED <<env, fetchVars, dedupeVars, fnVars>>

Dedupe ==
  \E p \in Slots, queryOk \in PipelineOks :
    ScanDedupe(p, queryOk) /\ UNCHANGED <<env, fetchVars, dedupeVars, fnVars>>

Enrich ==
  \E p \in Slots : \E oks \in EnrichOutcomes(Take(allItems[p], EnrichCap)) :
    ScanEnrich(p, oks) /\ UNCHANGED <<env, fetchVars, dedupeVars, fnVars>>

HealthFilterStep ==
  \E p \in Slots : \E k \in 1..Len(hTask[p]) : \E ok \in HealthStoreOks :
    HealthFilter(p, k, ok) /\ UNCHANGED <<env, fetchVars, dedupeVars, fnVars>>

HealthWriteStep ==
  \E p \in Slots : \E k \in 1..Len(hTask[p]) : \E ok \in HealthStoreOks :
    HealthWrite(p, k, ok) /\ UNCHANGED <<env, fetchVars, dedupeVars, fnVars>>

HealthSettle ==
  \E p \in Slots : HealthSettled(p) /\ UNCHANGED <<env, fetchVars, dedupeVars, fnVars>>

\* The CompanyProfile store.
CompanyProfileStore ==
  IF env = "lookups" THEN << [business_model |-> "B2C", industry |-> AbsentStr] >> ELSE <<>>

FilterByRules ==
  \E p \in Slots, profileOk \in LookupOks, ok \in RuleLookupOks :
    /\ ScanFilterByRules(p, CompanyProfileStore, profileOk, ok)
    /\ UNCHANGED <<env, fetchVars, dedupeVars, fnVars>>

\* Whether a RelevanceRule.update call returns.
RuleUpdateOks == IF env \in {"sequential", "rules"} THEN BOOLEAN ELSE {TRUE}

RuleUpdate ==
  \E k \in 1..Len(pendingRuleUpdates) : \E ok \in RuleUpdateOks :
    RuleUpdateLands(k, ok) /\ UNCHANGED <<env, fetchVars, dedupeVars, fnVars>>

Classify ==
  \E p \in Slots, ok \in PipelineOks : \E ups \in ClassifierChoices :
    /\ ok \/ ups = <<>>
    /\ ScanClassify(p, ups, ok)
    /\ UNCHANGED <<env, fetchVars, dedupeVars, fnVars>>

AnalysisSettle ==
  \E p \in Slots : \E i \in 1..Len(analysisResults[p]) : \E outcome \in AnalysisOutcomes :
    ScanAnalysisSettles(p, i, outcome) /\ UNCHANGED <<env, fetchVars, dedupeVars, fnVars>>

FinalQuery ==
  \E p \in Slots, ok \in PipelineOks :
    ScanFinalQuery(p, ok) /\ UNCHANGED <<env, fetchVars, dedupeVars, fnVars>>

PersistOne ==
  \E p \in Slots, createOk \in PipelineOks :
    ScanPersistOne(p, createOk) /\ UNCHANGED <<env, fetchVars, dedupeVars, fnVars>>

Report ==
  \E p \in Slots : ScanReport(p) /\ UNCHANGED <<env, fetchVars, dedupeVars, fnVars>>

Next ==
  \/ Start
  \/ FetchAll
  \/ Dedupe
  \/ Enrich
  \/ HealthFilterStep
  \/ HealthWriteStep
  \/ HealthSettle
  \/ FilterByRules
  \/ RuleUpdate
  \/ Classify
  \/ AnalysisSettle
  \/ FinalQuery
  \/ PersistOne
  \/ Report

\* Scans one after the other.
Spec == InitScan("sequential") /\ [][Next]_vars

\* One scan whose classifier answer may break the response schema.
SpecSchema == InitScan("schema") /\ [][Next]_vars

\* One scan with a selection of sources, custom sources and a company profile.
SpecLookups == InitScan("lookups") /\ [][Next]_vars

\* One scan of a long feed.
SpecBulk == InitScan("bulk") /\ [][Next]_vars

\* One scan whose secondary analyses are followed.
SpecAnalyses == InitScan("analyses") /\ [][Next]_vars

\* Scans that may overlap.
SpecConc == InitScan("concurrent") /\ [][Next]_vars

\* MaxScans scans one after the other.
SpecHealth == InitScan("health") /\ [][Next]_vars

\* One scan whose relevance rules and their usage counts are followed.
SpecRules == InitScan("rules") /\ [][Next]_vars

-----------------------------------------------------------------------------
(* Claims about the update store *)

\* Records i and j share a normalized title or a normalized non-empty source_url.
Shares(i, j) ==
  LET a == updateStore[i]
      b == updateStore[j]
  IN  \/ NormKey(a.title) = NormKey(b.title)
      \/ NormKey(a.source_url) # <<>> /\ NormKey(a.source_url) = NormKey(b.source_url)

\* The same, for a title that is not empty once normalized.
SharesKey(i, j) ==
  LET a == updateStore[i]
      b == updateStore[j]
  IN  \/ NormKey(a.title) # <<>> /\ NormKey(a.title) = NormKey(b.title)
      \/ NormKey(a.source_url) # <<>> /\ NormKey(a.source_url) = NormKey(b.source_url)

RecordPairs == { ij \in (1..Len(updateStore)) \X (1..Len(updateStore)) : ij[1] < ij[2] }

\* C1: with scans run one at a time from an empty store and every store query
\* succeeding, no two records of the store share a normalized title or a
\* normalized non-empty source_url, whatever the classifier returns.
C1_SequentialStoreUnique ==
  (env = "sequential" /\ ~queryFailed) => \A ij \in RecordPairs : ~Shares(ij[1], ij[2])

\* C2: when scans overlap and the classifier returns the same article to both,
\* no two records of the store share a normalized title or a normalized
\* non-empty source_url.
C2_ConcurrentPersistOnce ==
  env = "concurrent" => \A ij \in RecordPairs : ~Shares(ij[1], ij[2])

\* C2, as the code has it: a scan creates no record whose non-empty normalized
\* title or URL is that of a record its final re-query returned or of a record
\* it created itself; so two records that share a key were created by different
\* scans, and the later one by a scan whose re-query did not return the earlier.
C2_NoDuplicateOfWhatRequeryReturned ==
  \A ij \in RecordPairs :
    SharesKey(ij[1], ij[2]) =>
      /\ createdBy[ij[1]] # createdBy[ij[2]]
      /\ requeryLen[createdBy[ij[2]]] < ij[1]

C2_Witness ==
  /\ env = "concurrent"
  /\ \E ij \in RecordPairs :
       /\ SharesKey(ij[1], ij[2])
       /\ createdBy[ij[1]] # createdBy[ij[2]]
       /\ requeryLen[createdBy[ij[2]]] < ij[1]
       /\ requeryLen[createdBy[ij[1]]] < ij[1]

\* C4: an item that an earlier scan persisted and that is still in the feed is
\* removed by the history phase of dedupe, and the scan creates no record for it.
C4_PersistedItemNotCreatedAgain ==
  \A p \in Slots :
    (pc[p] \notin {"idle", "dedupe"} /\ ~queryFailed) =>
      \A x \in knownAtStart[p] :
        /\ \A i \in 1..Len(allItems[p]) :
             ~(allItems[p][i].title = x.title /\ allItems[p][i].link = x.link)
        /\ \A i \in 1..Len(savedUpdates[p]) :
             ~(savedUpdates[p][i].title = x.title /\ savedUpdates[p][i].source_url = x.link)

\* C5: no item that an active exclude rule of the scan drops is part of the
\* content handed to the scan's classification call.
C5_FilterBeforeClassification ==
  \A p \in Slots :
    pc[p] \in {"requery", "persist"} =>
      \A i \in 1..Len(feedContent[p]) : FirstMatch(relevanceRules[p], feedContent[p][i]) = 0

-----------------------------------------------------------------------------
(* Claims about source health *)

RecordsOf(k) == { i \in 1..Len(healthStore) : healthStore[i].source_url = HSources[k].url }

\* The scan in slot 1 has settled its health updates.
HealthDone == pc[1] \notin {"dedupe", "enrich", "health"}

\* C6: after three consecutive scans in each of which a source is failing, and
\* with every SourceHealth call succeeding, its health record shows
\* consecutive_failures = 3 and status = failing.
C6_ThreeFailuresCounted ==
  (env = "health" /\ HealthDone /\ hStoreFailed = 0) =>
    \A k \in SourceIds :
      failStreak[k] = 3 =>
        /\ RecordsOf(k) # {}
        /\ \A i \in RecordsOf(k) :
             /\ healthStore[i].status = "failing"
             /\ healthStore[i].consecutive_failures = 3

-----------------------------------------------------------------------------
(* PHASE 1: the sources' tasks *)

\* The entries of the error list that the task of source k caused
ErrorsAbout(p, k) ==
  { i \in 1..Len(errors[p]) :
      errors[p][i].kind \in {"source error", "task rejected"} /\ errors[p][i].about = k }

ItemsFrom(p, k) == { i \in 1..Len(allItems[p]) : allItems[p][i].source = HSources[k].name }

\* C13: when every source's task has settled the scan goes on to deduplication
\* whatever the tasks did; a source whose fetch was unsuccessful or whose task
\* threw contributes no item and one entry of the error list, and every source
\* whose task succeeded has its items collected.
C13_FailingSourceIsIsolated ==
  \A p \in Slots :
    pc[p] = "dedupe" =>
      \A k \in SourceIds :
        /\ hOutcome[p][k].fetch \in {"fail", "throw"} =>
             /\ ItemsFrom(p, k) = {}
             /\ Cardinality(ErrorsAbout(p, k)) = 1
        /\ hOutcome[p][k].fetch = "ok" =>
             /\ \E i \in ItemsFrom(p, k) : allItems[p][i] = TheArticle(k)
             /\ ErrorsAbout(p, k) = {}

C13_Witness ==
  /\ pc[1] = "dedupe"
  /\ hOutcome[1][1].fetch = "throw"
  /\ hOutcome[1][2].fetch = "ok"
  /\ allItems[1] = <<TheArticle(2)>>
  /\ Len(errors[1]) = 1

\* C14: a scrape source whose fetch failed is failing, with the fetch's error as
\* its message and an entry of the error list; one whose fetch succeeded and
\* from which nothing was extracted is degraded, with no entry of the error
\* list; one with at least one item is healthy.
C14_ScrapeHealthByOutcome ==
  \A p \in Slots :
    pc[p] = "dedupe" =>
      \A k \in SourceIds :
        HSources[k].type = "scrape" /\ hOutcome[p][k].fetch \notin {"throw", "skipped"} =>
          LET o == hOutcome[p][k].fetch
              h == CHOOSE x \in Range(sourceHealthUpdates[p]) :
                     x.source_url = HSources[k].url
          IN  /\ o = "fail" =>
                   /\ h.status = "failing"
                   /\ h.error_message = "HTTP 503"
                   /\ ErrorsAbout(p, k) # {}
              /\ o \in {"empty", "unparsed"} =>
                   /\ h.status = "degraded"
                   /\ ErrorsAbout(p, k) = {}
              /\ o = "ok" => h.status = "healthy"

\* The page was fetched, no document came out of the parser: the source is
\* reported failing and the error list has an entry for it.
C14_UnparsedPageIsFailing ==
  \A p \in Slots :
    pc[p] = "dedupe" =>
      \A k \in SourceIds :
        hOutcome[p][k].fetch = "unparsed" =>
          \A x \in Range(sourceHealthUpdates[p]) :
            x.source_url = HSources[k].url => x.status = "degraded"

-----------------------------------------------------------------------------
(* PHASE 2: deduplication inside the scan *)

\* The scan's deduplication step in which RegulatoryUpdate.filter threw
DedupeQueryFails(p) == pc[p] = "dedupe" /\ pc'[p] # "dedupe" /\ faults' = faults + 1

\* C15: when the store query of deduplicateItems throws, the scan's items become
\* exactly the intra-batch-deduplicated list, nothing is added to the error list
\* and no response is sent: the scan goes on to enrichment.
C15_QueryFailureKeepsBatchDeduped ==
  [][\A p \in Slots :
       DedupeQueryFails(p) =>
         /\ allItems'[p] = BatchDeduped(allItems[p])
         /\ allItems'[p] # <<>>
         /\ pc'[p] = "enrich"
         /\ errors'[p] = errors[p]
         /\ response'[p] = response[p]]_vars

\* The second scan's query failed, the article the store already holds stayed in
\* the batch and the scan is past classification.
C15_Witness ==
  /\ runs = 2
  /\ queryFailed
  /\ pc[1] = "requery"
  /\ updates[1] # <<>>
  /\ \E i \in 1..Len(allItems[1]) : \E j \in 1..Len(updateStore) :
       NormKey(allItems[1][i].title) = <<"a">> /\ NormKey(updateStore[j].title) = <<"a">>

\* The item has the normalised title, or the normalised non-empty URL, of one of
\* the records
MatchesHistory(item, records) ==
  \E j \in 1..Len(records) :
    \/ NormKey(item.title) = NormKey(records[j].title)
    \/ /\ NormKey(item.link) # <<>>
       /\ NormKey(item.link) = NormKey(records[j].source_url)

\* C16: when the store query succeeds, deduplicateItems returns the
\* batch-deduplicated items, in order, without those whose normalised title or
\* normalised non-empty URL is that of one of the (at most 500) records the
\* query returned.
C16_HistoryDropsEveryMatch ==
  (dpc = "done" /\ dQueryOk) =>
    dOut = SelectSeq(dBatch, LAMBDA x : ~MatchesHistory(x, CapExisting(dExisting)))

-----------------------------------------------------------------------------
(* The secondary analyses and the save loop *)

\* The first update of the classifier's answer the record was created from
FirstPos(p, record) ==
  CHOOSE k \in 1..Len(updates[p]) :
    /\ updates[p][k].title = record.title
    /\ updates[p][k].source_url = record.source_url
    /\ \A j \in 1..(k - 1) :
         updates[p][j].title # record.title \/ updates[p][j].source_url # record.source_url

CreatedByRun(r) == { i \in 1..Len(updateStore) : createdBy[i] = r }

\* C17: while a secondary analysis is pending the scan has created no record,
\* and the save loop runs only when none is pending; the records are created in
\* the order of the classifier's updates, each with the result of its own
\* analysis, whatever the order in which the analyses settled.
C17_PersistAfterAnalysesInInputOrder ==
  \A p \in Slots :
    /\ (\/ pc[p] = "analyses"
        \/ \E k \in 1..Len(analysisResults[p]) : analysisResults[p][k] = "pending") =>
         /\ pc[p] = "analyses"
         /\ savedUpdates[p] = <<>>
         /\ CreatedByRun(runId[p]) = {}
    /\ pc[p] = "persist" =>
         /\ \A i \in 1..Len(savedUpdates[p]) :
              /\ FirstPos(p, savedUpdates[p][i]) < idx[p]
              /\ savedUpdates[p][i].is_court_decision_or_enforcement =
                   (analysisResults[p][FirstPos(p, savedUpdates[p][i])] = "analysed")
         /\ \A i \in 1..Len(savedUpdates[p]) : \A j \in 1..Len(savedUpdates[p]) :
              i < j => FirstPos(p, savedUpdates[p][i]) < FirstPos(p, savedUpdates[p][j])

\* The analysis of the second update settled first, that of the first failed;
\* both records exist, in the classifier's order.
C17_Witness ==
  /\ pc[1] = "persist"
  /\ analysisOrder[1] = <<2, 1>>
  /\ analysisResults[1] = <<"null", "analysed">>
  /\ Len(savedUpdates[1]) = 2
  /\ savedUpdates[1][1].title = updates[1][1].title
  /\ savedUpdates[1][2].title = updates[1][2].title

\* One iteration of the save loop of slot p
PersistStep(p) == pc[p] = "persist" /\ idx'[p] = idx[p] + 1

\* The update the iteration is about has the title, or the non-empty URL, of a
\* record the re-query returned or of a record saved earlier in the batch.
DuplicateAtWrite(p) ==
  LET update == updates[p][idx[p]]
  IN  \/ NormKey(update.title) \in existingTitlesForSave[p] \cup savedTitlesThisBatch[p]
      \/ /\ NormKey(update.source_url) # <<>>
         /\ NormKey(update.source_url) \in existingUrlsForSave[p] \cup savedUrlsThisBatch[p]

Skipped(p) ==
  /\ updateStore' = updateStore
  /\ savedUpdates'[p] = savedUpdates[p]
  /\ Len(errors'[p]) = Len(errors[p]) + 1
  /\ SubSeq(errors'[p], 1, Len(errors[p])) = errors[p]
  /\ errors'[p][Len(errors'[p])].about = idx[p]
  /\ errors'[p][Len(errors'[p])].kind \in {"skipped duplicate", "failed to save"}

Created(p) ==
  /\ Len(updateStore') = Len(updateStore) + 1
  /\ Len(savedUpdates'[p]) = Len(savedUpdates[p]) + 1
  /\ errors'[p] = errors[p]

\* C18: an iteration of the save loop either creates the record and leaves the
\* error list alone, or (duplicate title or URL at write time, or a create call
\* that throws) creates nothing and appends exactly one message; either way the
\* loop goes on with the next update, and it ends only after the last update,
\* with the success response.
C18_SkipIsNonFatal ==
  [][\A p \in Slots :
       /\ PersistStep(p) =>
            /\ Skipped(p) \/ Created(p)
            /\ DuplicateAtWrite(p) => Skipped(p)
            /\ pc'[p] = "persist"
            /\ updates'[p] = updates[p]
       /\ (pc[p] = "persist" /\ pc'[p] # "persist") =>
            /\ idx[p] = Len(updates[p]) + 1
            /\ pc'[p] = "idle"
            /\ response'[p].status = 200
            /\ response'[p].success
            /\ response'[p].saved = Len(savedUpdates[p])]_vars

\* The first update was a duplicate of a stored record, the create call of the
\* second threw: two messages, no record, and the loop is past both.
C18_Witness ==
  /\ pc[1] = "persist"
  /\ idx[1] = 3
  /\ errors[1] = <<[kind |-> "skipped duplicate", about |-> 1],
                  [kind |-> "failed to save", about |-> 2]>>
  /\ savedUpdates[1] = <<>>

-----------------------------------------------------------------------------
(* The caps on enrichment and on classification *)

\* C19: a scan makes no primary classification call before Classify and exactly
\* one from then on; the content of the call is the first 50 of the scan's
\* items, in order, as they stand when the content is built, so no item after
\* the 50th is in it.
C19_OneCallOfAtMostFifty ==
  \A p \in Slots :
    /\ pc[p] = "rules" =>
         /\ Len(feedContent[p]) = IF Len(allItems[p]) > 50 THEN 50 ELSE Len(allItems[p])
         /\ \A i \in 1..Len(feedContent[p]) : feedContent[p][i] = allItems[p][i]
         /\ \A i \in 51..Len(allItems[p]) :
              \A j \in 1..Len(feedContent[p]) : feedContent[p][j] # allItems[p][i]
    /\ pc[p] \in {"rules", "classify"} => llmCalls[p] = 0
    /\ pc[p] \in {"classify", "analyses", "requery", "persist"} =>
         /\ Len(feedContent[p]) <= 50
         /\ Len(feedContent[p]) > 0
    /\ pc[p] \in {"analyses", "requery", "persist"} => llmCalls[p] = 1

\* The feed alone carried more than 50 articles; the one call was made with 50.
C19_Witness ==
  /\ pc[1] = "requery"
  /\ llmCalls[1] = 1
  /\ Len(feedContent[1]) = 50
  /\ sourceHealthUpdates[1][1].items_fetched > 50
  /\ updates[1] # <<>>

\* C20: the enrichment phase starts one task for each of the first 15 items of
\* the deduplicated list and none for the others; an item after the 15th is left
\* as it was, an item whose task failed is left as it was, and every other of
\* the first 15 is enriched; the scan goes on to the health updates.
C20_EnrichFirstFifteen ==
  \A p \in Slots :
    pc[p] = "health" =>
      /\ Len(enrichTasks[p]) = IF Len(allItems[p]) > 15 THEN 15 ELSE Len(allItems[p])
      /\ \A i \in 1..Len(allItems[p]) :
           LET item == allItems[p][i]
               untouched == item.fullContent = <<>> /\ item.description = <<>>
           IN  /\ i > 15 => untouched
               /\ (i <= 15 /\ ~enrichTasks[p][i]) => untouched
               /\ (i <= 15 /\ enrichTasks[p][i] /\ HasPage(item)) =>
                    item.fullContent = PageContent /\ item.description # <<>>

\* Seventeen items, the first task failed: items 2 to 15 are enriched, 16 and 17
\* are not, and the scan is in its next phase.
C20_Witness ==
  /\ pc[1] = "health"
  /\ Len(allItems[1]) = 17
  /\ Len(enrichTasks[1]) = 15
  /\ ~enrichTasks[1][1]
  /\ allItems[1][1].fullContent = <<>>
  /\ allItems[1][15].fullContent = PageContent
  /\ allItems[1][16].fullContent = <<>>

-----------------------------------------------------------------------------
(* enrichArticleContent on its own (lines 533-615) *)

\* Items given to the function: no link, a relative link, a link whose scheme is
\* not in lower case, an http link; with and without a description.
EnrichLinks == { <<>>, <<"/", "x">>, <<"H", "u">>, <<"h", "u">> }

EnrichItems ==
  [title : { <<"A">>, <<"B">>, <<" ">> }, link : EnrichLinks,
   description : { <<>>, <<"d">> }, source : { <<"F">>, <<"S">> },
   fullContent : { <<>> }]

\* line 537: the number of fetchWithRetry calls the function makes
EnrichRequests(item) == IF HasPage(item) THEN 1 ELSE 0

EnrichCall ==
  /\ fnpc = "call"
  /\ fnOut' = [item |-> EnrichArticleContent(fnIn.item, fnIn.fetchedOk),
               requests |-> EnrichRequests(fnIn.item)]
  /\ fnpc' = "done"
  /\ UNCHANGED fnIn
  /\ UNCHANGED <<fetchVars, dedupeVars, healthVars, scanVars, env>>

InitEnrich ==
  /\ FetchIdle
  /\ DedupeIdle
  /\ HealthIdle
  /\ ScanIdle
  /\ fnpc = "call"
  /\ fnIn \in [item : EnrichItems, fetchedOk : BOOLEAN]
  /\ fnOut = <<>>

NextEnrich == EnrichCall

SpecEnrich == InitEnrich /\ [][NextEnrich]_vars

\* C21: for an item whose link is empty or does not begin with the http
\* prefix the function makes no request and returns the item with every field
\* as it was; when the fetch of the page fails it returns the item with every
\* field as it was.
C21_EnrichPassThrough ==
  fnpc = "done" =>
    /\ (fnIn.item.link = <<>> \/ fnIn.item.link[1] # "h") =>
         fnOut.item = fnIn.item /\ fnOut.requests = 0
    /\ ~fnIn.fetchedOk => fnOut.item = fnIn.item

\* A relative link whose page would have been fetched without error.
C21_Witness ==
  /\ fnpc = "done"
  /\ fnIn.item.link = <<"/", "x">>
  /\ fnIn.fetchedOk
  /\ fnOut = [item |-> fnIn.item, requests |-> 0]

-----------------------------------------------------------------------------
(* The classifier's answer and its schema *)

\* The update has every required field and its enum fields hold declared values
Conforms(update) ==
  /\ update.title # <<>>
  /\ update.source # <<>>
  /\ \A f \in RequiredFields \ {"title", "source"} : update[f] # AbsentStr
  /\ update.domain \in DomainEnum
  /\ update.jurisdiction \in JurisdictionEnum
  /\ update.risk_score \in RiskScoreEnum
  /\ update.update_type \in UpdateTypeEnum

\* C22: every record the scan has created comes from an update of the
\* classifier's answer that has all required fields and whose enum fields
\* hold declared values.
C22_OnlyConformingUpdatesPersisted ==
  \A p \in Slots :
    pc[p] = "persist" =>
      \A i \in 1..Len(savedUpdates[p]) :
        Conforms(updates[p][FirstPos(p, savedUpdates[p][i])])

-----------------------------------------------------------------------------
(* One SourceHealth record per source_url *)

\* C23: the health store never holds two records with the same source_url.
C23_OneHealthRecordPerUrl ==
  \A i, j \in 1..Len(healthStore) :
    healthStore[i].source_url = healthStore[j].source_url => i = j

-----------------------------------------------------------------------------
(* consecutive_failures at every write of a health record *)

\* The stored counter as a number: a record without the field counts as 0
StoredFailures(record) ==
  IF record.consecutive_failures = AbsentNum THEN 0 ELSE record.consecutive_failures

\* C29: every successful write of a source's health record, update or first
\* create, leaves consecutive_failures one above the value stored before (0
\* when there was no record) if the source is failing in this scan, and at 0
\* if it is healthy or degraded.
C29_StreakOnEveryWrite ==
  [][\A p \in Slots : \A k \in 1..Len(hTask[p]) :
       ( /\ pc[p] = "health"
         /\ hTask[p][k].st = "filtered"
         /\ hTask'[p][k].st = "done"
         /\ healthStore' # healthStore ) =>
         LET health == sourceHealthUpdates[p][k]
             before == IF hTask[p][k].found
                         THEN StoredFailures(healthStore[hTask[p][k].id]) ELSE 0
             written == IF hTask[p][k].found
                          THEN healthStore'[hTask[p][k].id]
                          ELSE healthStore'[Len(healthStore')]
         IN written.consecutive_failures =
              IF health.status = "failing" THEN before + 1 ELSE 0]_vars

-----------------------------------------------------------------------------
(* fetchWithRetry: server errors and network failures *)

\* Request k ended in a 5xx response, a network failure or the abort timeout
ServerFailureAt(k) ==
  \/ responses[k].outcome.kind \in {"network", "timeout"}
  \/ responses[k].outcome.kind = "response" /\ responses[k].outcome.status \in 500..599

\* The error fetchWithRetry remembers for request k
FailureOf(k) ==
  IF responses[k].outcome.kind = "response"
    THEN <<"HTTP", responses[k].outcome.status>>
    ELSE <<responses[k].outcome.kind, 0>>

-----------------------------------------------------------------------------
(* The handler's catch (lines 1272-1277) *)

\* The invocation in slot p ends because the classification call threw
ClassifierThrows(p) == pc[p] = "classify" /\ pc'[p] = "idle"

\* C24: when the primary classification call throws, the invocation ends with
\* a response of status 500 carrying success = false, the error's message and
\* the elapsed time, nothing is written to the update store, and the slot is
\* idle again; a response with success = false always has status 500.
C24_EscapedFailureIsA500 ==
  /\ [][\A p \in Slots :
          ClassifierThrows(p) =>
            /\ response'[p] = [status |-> 500, success |-> FALSE, saved |-> 0,
                               error |-> "InvokeLLM failed",
                               execution_time_ms |-> "elapsed"]
            /\ updateStore' = updateStore
            /\ allItems'[p] = <<>> /\ updates'[p] = <<>>]_vars
  /\ [](\A p \in Slots :
          (response[p].status # 0 /\ ~response[p].success) =>
            /\ response[p].status = 500
            /\ response[p].error # AbsentStr
            /\ response[p].execution_time_ms # AbsentStr)

\* The invocation after one that ended with 500 has created a record.
C24_Witness ==
  /\ runs = 2
  /\ response[1].status = 500
  /\ pc[1] = "persist"
  /\ savedUpdates[1] # <<>>
  /\ Len(updateStore) = 1

-----------------------------------------------------------------------------
(* The three lookups of a scan *)

StaticSources == RSS_FEEDS \o SCRAPE_CONFIGS

\* C25: a scan whose ComplianceSource lookup threw goes on with hardcoded
\* sources only (all of them when nothing is selected); one whose
\* RelevanceRule lookup threw has no rules and reaches the classification call
\* with every item it had; one whose CompanyProfile lookup threw words the
\* prompt with the generic company; none of them is answered with an error.
C25_LookupFailuresAreTolerated ==
  \A p \in Slots :
    /\ lookups[p].sources = "failed" =>
         /\ pc[p] # "idle"
         /\ \A i \in 1..Len(allSources[p]) : allSources[p][i] \in Range(StaticSources)
         /\ selectedSourceIds[p].isNull => allSources[p] = StaticSources
    /\ lookups[p].rules = "failed" =>
         /\ pc[p] # "idle"
         /\ relevanceRules[p] = <<>>
         /\ pc[p] = "classify" => allItems[p] = feedContent[p]
    /\ lookups[p].profile = "failed" =>
         /\ pc[p] # "idle"
         /\ companyContext[p] = GenericContext
    /\ response[p].status \in {0, 200}

\* A scan in which all three lookups threw has created a record.
C25_Witness ==
  /\ env = "lookups"
  /\ lookups[1] = [sources |-> "failed", profile |-> "failed", rules |-> "failed"]
  /\ pc[1] = "persist"
  /\ Len(allItems[1]) = 2
  /\ savedUpdates[1] # <<>>

-----------------------------------------------------------------------------
(* The selection of sources *)

\* The names of the sources the scan in slot p fetches
FetchedNames(p) == { allSources[p][i].name : i \in 1..Len(allSources[p]) }

\* C27: in a scan whose source lookup returned, with a selection exactly the
\* selected sources are fetched (a hardcoded source iff its static id is in
\* the list, an active custom source iff its store id is in the list), and
\* without one every hardcoded and every active custom source is fetched.
C27_ExactlyTheSelectedSources ==
  \A p \in Slots :
    (pc[p] # "idle" /\ lookups[p].sources = "ok") =>
      LET ids == Range(selectedSourceIds[p].ids)
          custom == ActiveSources(ComplianceSourceStore)
      IN  /\ \A id \in StaticSourceIds :
               StaticSourceIdMap(id) \in FetchedNames(p)
                 <=> (selectedSourceIds[p].isNull \/ id \in ids)
          /\ \A i \in 1..Len(custom) :
               custom[i].name \in FetchedNames(p)
                 <=> (selectedSourceIds[p].isNull \/ custom[i].id \in ids)
          /\ \A i \in 1..Len(ComplianceSourceStore) :
               ~ComplianceSourceStore[i].is_active =>
                 ComplianceSourceStore[i].name \notin FetchedNames(p)

-----------------------------------------------------------------------------
(* The order of the phases *)

\* The phases in the order of the handler's text, by the position the
\* invocation is at: CollectSources is done when it is at "fetch", FetchAll
\* when at "dedupe", and so on up to the save loop ("persist") and the report.
PhaseRank(at) ==
  CASE at = "idle" -> 0
    [] at = "fetch" -> 1
    [] at = "dedupe" -> 2
    [] at = "enrich" -> 3
    [] at = "health" -> 4
    [] at = "rules" -> 5
    [] at = "classify" -> 6
    [] at = "analyses" -> 7
    [] at = "requery" -> 8
    [] at = "persist" -> 9

\* C26: an invocation moves from each phase to the next one of the order
\* CollectSources, FetchAll, Dedupe, Enrich, PersistHealth, FilterByRules,
\* Classify, FinalDedupe, Persist, Report, or ends; every fetch task has
\* settled when Dedupe starts, every enrichment task when a health record is
\* written, every health task when the classification call is made, and a
\* record is created only after the classification call and the re-query.
C26_PhasesInOrder ==
  /\ [][\A p \in Slots :
          /\ pc'[p] # pc[p] =>
               \/ pc'[p] = "idle" /\ response'[p].status # 0
               \/ PhaseRank(pc'[p]) = PhaseRank(pc[p]) + 1
               \/ /\ pc[p] = "classify" /\ pc'[p] = "requery"
                  /\ \A i \in 1..Len(updates'[p]) :
                       updates'[p][i].update_type \notin {"Ruling", "Enforcement"}
          /\ (pc[p] = "fetch" /\ pc'[p] = "dedupe") =>
               \A k \in Fetched(p) : hOutcome'[p][k].fetch \notin {"none", "skipped"}
          /\ (pc[p] = "health" /\ hTask'[p] # hTask[p]) =>
               Len(enrichTasks[p]) = Len(Take(allItems[p], EnrichCap))
          /\ llmCalls'[p] > llmCalls[p] =>
               /\ pc[p] = "classify"
               /\ \A k \in 1..Len(hTask[p]) : hTask[p][k].st = "done"
               /\ Len(hTask[p]) = Len(sourceHealthUpdates[p])
          /\ (pc[p] = "requery" /\ pc'[p] = "persist") =>
               /\ llmCalls[p] = 1
               /\ savedUpdates[p] = <<>>]_vars
  /\ [][updateStore' # updateStore =>
          \E p \in Slots : pc[p] = "persist" /\ pc'[p] = "persist" /\ llmCalls[p] = 1]_vars
  /\ [][healthStore' # healthStore =>
          \E p \in Slots : pc[p] = "health" /\ pc'[p] = "health"]_vars

\* A scan that went through every phase is about to report.
C26_Witness ==
  /\ pc[1] = "persist"
  /\ idx[1] > Len(updates[1])
  /\ Len(savedUpdates[1]) = 2
  /\ Len(enrichTasks[1]) = 2
  /\ Len(hTask[1]) = 2
  /\ relevanceRules[1] # <<>>
  /\ llmCalls[1] = 1

-----------------------------------------------------------------------------
(* parseRssFeed on its own (lines 319-453) *)

MaxFeedItems == 2         \* item or entry elements of a feed document

\* The position of the first ">" of s, 0 when there is none
FirstClose(s) ==
  IF \E j \in 1..Len(s) : s[j] = ">"
    THEN CHOOSE j \in 1..Len(s) : s[j] = ">" /\ \A i \in 1..(j - 1) : s[i] # ">"
    ELSE 0

\* replace(/<[^>]*>/g, ''): every run from a "<" to the next ">" is removed
RECURSIVE StripTags(_)
StripTags(s) ==
  IF s = <<>> THEN <<>>
  ELSE IF Head(s) = "<" /\ FirstClose(s) > 0
    THEN StripTags(SubSeq(s, FirstClose(s) + 1, Len(s)))
    ELSE <<Head(s)>> \o StripTags(Tail(s))

\* The title of an item element: none, or its text, which parseXML hands over
\* as a string, as { "#text" } (a title element with attributes) or as
\* { "#cdata" }
NoTitle == [form |-> "none", chars |-> <<>>]
TitleTexts ==
  { <<>>, <<" ">>, <<"T">>, <<" ", "T", " ">>, <<"<", "b", ">", "T", "<", "/", "b", ">">>,
    <<"<", "b", ">", " ", "<", "/", "b", ">">>, <<"<", "T", ">">> }
TitleValues == {NoTitle} \cup [form : {"string", "text", "cdata"}, chars : TitleTexts]

\* An item or entry element: whether its start tag carries attributes (as
\* <item rdf:about="..."> does), and its title
ItemElements == [attrs : BOOLEAN, title : TitleValues]

\* A feed document: whether parseXML accepts it, its shape, its elements
FeedDocuments ==
  [parses : BOOLEAN, shape : {"rss", "atom", "rdf"},
   items : SeqsUpTo(ItemElements, MaxFeedItems)]

\* lines 438-444
ExtractTextContent(value) ==
  IF value.form = "none" \/ value.chars = <<>> THEN <<>>
  ELSE StripTags(Trim(value.chars))

\* lines 446-453: the text between the tags, CDATA unwrapped, trimmed and
\* stripped
ExtractTagFallback(value) ==
  IF value.form = "none" THEN <<>> ELSE StripTags(Trim(value.chars))

\* The titles each path pushes: the elements whose extracted title is truthy
Titled(elements, viaRegex) ==
  LET extracted == [i \in 1..Len(elements) |->
                      IF viaRegex THEN ExtractTagFallback(elements[i].title)
                                  ELSE ExtractTextContent(elements[i].title)]
      kept == SelectSeq([i \in 1..Len(elements) |-> i], LAMBDA i : extracted[i] # <<>>)
  IN  [j \in 1..Len(kept) |-> [title |-> extracted[kept[j]]]]

\* lines 399-437: /<item>...<\/item>/ and /<entry>...<\/entry>/ match start
\* tags without attributes only; entries are looked for when no item was pushed
ParseRssFeedFallback(doc) ==
  LET bare == SelectSeq(doc.items, LAMBDA e : ~e.attrs)
      fromItems == IF doc.shape \in {"rss", "rdf"} THEN Titled(bare, TRUE) ELSE <<>>
  IN  IF fromItems # <<>> THEN fromItems
      ELSE IF doc.shape = "atom" THEN Titled(bare, TRUE)
      ELSE <<>>

\* lines 319-396: the three shapes are handled alike as far as titles go
ParseRssFeed(doc) ==
  IF doc.parses THEN Titled(doc.items, FALSE) ELSE ParseRssFeedFallback(doc)

ParseCall ==
  /\ fnpc = "call"
  /\ fnOut' = ParseRssFeed(fnIn)
  /\ fnpc' = "done"
  /\ UNCHANGED fnIn
  /\ UNCHANGED <<fetchVars, dedupeVars, healthVars, scanVars, env>>

InitParse ==
  /\ FetchIdle
  /\ DedupeIdle
  /\ HealthIdle
  /\ ScanIdle
  /\ fnpc = "call"
  /\ fnIn \in FeedDocuments
  /\ fnOut = <<>>

NextParse == ParseCall

SpecParse == InitParse /\ [][NextParse]_vars

\* The element has a title whose text is not blank
WellFormedTitled(element) ==
  element.title.form # "none" /\ Trim(element.title.chars) # <<>>

\* C28: every item parseRssFeed returns has a non-empty title, and the result
\* is not empty when the document has an element with a title.
C28_TitledItemsAreReturned ==
  fnpc = "done" =>
    /\ \A i \in 1..Len(fnOut) : fnOut[i].title # <<>>
    /\ (\E i \in 1..Len(fnIn.items) : WellFormedTitled(fnIn.items[i])) => fnOut # <<>>

\* Every item returned has a non-empty title, on each path.
C28_ReturnedTitlesNonEmpty ==
  fnpc = "done" => \A i \in 1..Len(fnOut) : fnOut[i].title # <<>>

-----------------------------------------------------------------------------
(* The usage counts of the relevance rules (lines 923-972) *)

\* The first rule of the store that removes the item, in the words of the
\* specification; 0 when no rule does.
FirstExcluder(item, store) ==
  LET hits == { j \in 1..Len(store) : Excludes(store[j], item) }
  IN  IF hits = {} THEN 0 ELSE CHOOSE j \in hits : \A k \in hits : j <= k

\* The scan of slot p filters its items in this step.
FilterStep(p) == pc[p] = "rules" /\ pc'[p] = "classify"

\* The RelevanceRule.update calls the step adds to those in flight.
IssuedInStep ==
  SubSeq(pendingRuleUpdates', Len(pendingRuleUpdates) + 1, Len(pendingRuleUpdates'))

\* A RelevanceRule.update call settles in this step.
UpdateSettles == Len(pendingRuleUpdates') < Len(pendingRuleUpdates)

\* C31: the filter issues one usage-count update per item it drops, on the
\* first rule of the store that matches the item, and none besides; when such
\* an update settles, rejected or not, the items, the position and the response
\* of the scan are what they were, and no scan ends in a server error.
C31_OneUpdatePerDroppedItem ==
  [][\A p \in Slots :
       /\ FilterStep(p) =>
            LET droppedItems == SelectSeq(allItems[p], LAMBDA x : Excluded(x, ruleStore))
            IN  /\ Len(IssuedInStep) = Len(droppedItems)
                /\ \A i \in 1..Len(droppedItems) :
                     IssuedInStep[i].id = FirstExcluder(droppedItems[i], ruleStore)
                /\ allItems'[p] = SelectSeq(allItems[p], LAMBDA x : ~Excluded(x, ruleStore))
       /\ UpdateSettles => UNCHANGED <<pc, allItems, updates, response, errors>>
       /\ response'[p] # NoResponse => response'[p].success]_vars

\* A scan whose filter dropped two items on different rules, the first of them
\* matched by both rules; one update was rejected and the scan ended well.
C31_Witness ==
  /\ env = "rules"
  /\ Len(fnIn.items) = 3
  /\ Len(fnIn.store) = 2
  /\ Excludes(fnIn.store[1], fnIn.items[1]) /\ Excludes(fnIn.store[2], fnIn.items[1])
  /\ ~Excludes(fnIn.store[1], fnIn.items[3]) /\ Excludes(fnIn.store[2], fnIn.items[3])
  /\ ~Excluded(fnIn.items[2], fnIn.store)
  /\ faults = 1
  /\ pendingRuleUpdates = <<>>
  /\ response[1] # NoResponse
  /\ response[1].success
  /\ ruleStore[1].times_applied + ruleStore[2].times_applied = 1

\* The items of the scan that the rule at position j of the store was the first
\* to exclude.
AppliedTo(j) ==
  { i \in 1..Len(fnIn.items) : FirstExcluder(fnIn.items[i], fnIn.store) = j }

\* The filter of the scan has run with the rules of the store and every
\* RelevanceRule.update it issued has been applied.
UpdatesCompleted ==
  /\ env = "rules"
  /\ lookups[1].rules = LookupResult(TRUE)
  /\ pendingRuleUpdates = <<>>
  /\ faults = 0

\* C32: once the updates of a scan have all completed, the stored times_applied
\* of every rule is higher than before the scan by the number of items the rule
\* was the first to match.
C32_TimesAppliedCountsApplications ==
  UpdatesCompleted =>
    \A j \in 1..Len(ruleStore) :
      ruleStore[j].times_applied =
        fnIn.store[j].times_applied + Cardinality(AppliedTo(j))

\* What the store holds instead: a rule applied to one item or more is one
\* higher than before the scan, whatever the number of items.
C32_Observed ==
  UpdatesCompleted =>
    \A j \in 1..Len(ruleStore) :
      ruleStore[j].times_applied =
        fnIn.store[j].times_applied + (IF AppliedTo(j) = {} THEN 0 ELSE 1)

C32_ObservedWitness ==
  /\ UpdatesCompleted
  /\ \E j \in 1..Len(ruleStore) : Cardinality(AppliedTo(j)) = 2

-----------------------------------------------------------------------------
(* fetchWithRetry: the attempt count it returns (lines 72-127) *)

\* C33: with maxRetries >= 1, the attempt count of the returned object is the
\* number of requests the call issued, whether it returns on a success, on a
\* client error, on a 429 at the last attempt or after the last failed attempt.
C33_AttemptCountsRequests ==
  (fpc = "returned" /\ maxRetries >= 1) => result.attempt = Len(sentAt)

\* A call that waited out a 429, met a server error and a network failure and
\* returned exhausted after three requests.
C33_Witness ==
  /\ fpc = "returned"
  /\ maxRetries = 3
  /\ Len(responses) = 3
  /\ responses[1].outcome.status = 429
  /\ responses[2].outcome.status = 503
  /\ responses[3].outcome.kind = "network"
  /\ ~result.success
  /\ result.attempt = 3
  /\ Len(sentAt) = 3

-----------------------------------------------------------------------------
(* The scan handler: nothing left after deduplication (lines 836-883) *)

\* The scan of slot p returns at line 874.
EarlyExit(p) == pc[p] = "health" /\ allItems[p] = <<>> /\ pc'[p] = "idle"

\* The health task of source k in the scan of slot p has gone through its
\* upsert: the record of the source's URL is the one this scan wrote, unless
\* the SourceHealth call itself threw.
Upserted(p, k) ==
  \/ hOutcome[p][k].upsert = "failed"
  \/ /\ hOutcome[p][k].upsert \in {"created", "updated"}
     /\ \E i \in 1..Len(healthStore) :
          /\ healthStore[i].source_url = HSources[k].url
          /\ healthStore[i].last_check = runId[p]

\* C34: a scan left with no item after deduplication answers with a success
\* response; it has made no classification call and created no record, and
\* the health task of every source whose fetch task was fulfilled has gone
\* through its upsert by then. No scan goes on to the rules with no item.
C34_NothingNewEndsEarly ==
  [][\A p \in Slots :
       /\ EarlyExit(p) =>
            /\ response'[p] = Success(0)
            /\ llmCalls[p] = 0
            /\ updateStore' = updateStore
            /\ \A i \in 1..Len(createdBy) : createdBy[i] # runId[p]
            /\ \A k \in Fetched(p) :
                 hOutcome[p][k].fetch # "throw" => Upserted(p, k)
       /\ (pc[p] = "health" /\ pc'[p] # "health") =>
            (allItems[p] = <<>> <=> pc'[p] = "idle")]_vars

\* The second scan found the article the first one stored: it ended with a
\* success response and no new record, and the health records are its own.
C34_Witness ==
  /\ env = "health"
  /\ runs = 2
  /\ pc[1] = "idle"
  /\ response[1] = Success(0)
  /\ Len(updateStore) = 1
  /\ createdBy = <<1>>
  /\ Len(healthStore) = 2
  /\ \A i \in 1..2 : /\ healthStore[i].last_check = 2
                       /\ healthStore[i].status = "healthy"
                       /\ healthStore[i].items_fetched = 1

-----------------------------------------------------------------------------
(* The scan handler: a failed re-query before the save loop (lines 1169-1210) *)

\* The re-query of the scan of slot p throws in this step.
RequeryFails(p) == pc[p] = "requery" /\ pc'[p] # "requery" /\ faults' > faults

\* The save loop of slot p works with two empty sets of existing keys.
NothingKnown(p) ==
  pc[p] = "persist" /\ existingTitlesForSave[p] = {} /\ existingUrlsForSave[p] = {}

\* The update repeats the normalized title, or the non-empty normalized URL, of
\* a record created earlier in the same batch.
RepeatsBatch(p, update) ==
  \E k \in 1..Len(savedUpdates[p]) :
    \/ NormKey(savedUpdates[p][k].title) = NormKey(update.title)
    \/ /\ NormKey(update.source_url) # <<>>
       /\ NormKey(savedUpdates[p][k].source_url) = NormKey(update.source_url)

\* C35: a re-query that throws does not end the scan: the save loop starts with
\* both sets of existing keys empty, and with them empty it skips exactly the
\* updates that repeat, by normalized title or by non-empty normalized URL, a
\* record created earlier in the same batch; every other update is handed to
\* RegulatoryUpdate.create, and the scan ends with the success response.
C35_FailedRequeryOnlyBatchDuplicates ==
  [][\A p \in Slots :
       /\ RequeryFails(p) =>
            /\ pc'[p] = "persist"
            /\ existingTitlesForSave'[p] = {}
            /\ existingUrlsForSave'[p] = {}
            /\ response' = response
       /\ (NothingKnown(p) /\ idx'[p] = idx[p] + 1) =>
            LET update == updates[p][idx[p]]
            IN  IF RepeatsBatch(p, update)
                  THEN /\ updateStore' = updateStore
                       /\ Len(errors'[p]) = Len(errors[p]) + 1
                  ELSE \/ /\ Len(updateStore') = Len(updateStore) + 1
                          /\ updateStore'[Len(updateStore')].title = update.title
                       \/ /\ faults' > faults
                          /\ updateStore' = updateStore
       /\ (pc[p] = "persist" /\ pc'[p] # "persist") => response'[p].success]_vars

\* The second scan's re-query threw: the update that repeats the record of the
\* first scan was created again, and the one that repeats it within the batch
\* was skipped.
C35_Witness ==
  /\ env = "sequential"
  /\ faults = 1
  /\ queryFailed
  /\ createdBy = <<1, 2>>
  /\ NormKey(updateStore[1].title) = NormKey(updateStore[2].title)
  /\ pc[1] = "persist"
  /\ idx[1] = 3
  /\ NothingKnown(1)
  /\ Len(savedUpdates[1]) = 1
  /\ RepeatsBatch(1, updates[1][2])

-----------------------------------------------------------------------------
(* Source health: what a record keeps of earlier scans (lines 468-529, 853-865) *)

\* C36: a stored health record reflects the latest scan of its source only: a
\* healthy record carries no error_message and a failing record carries no
\* items_fetched.
C36_RecordReflectsLatestScan ==
  \A i \in 1..Len(healthStore) :
    /\ healthStore[i].status = "healthy" => healthStore[i].error_message = AbsentStr
    /\ healthStore[i].status = "failing" => healthStore[i].items_fetched = AbsentNum

\* The records the first scan creates are clean: the fields are left over by
\* SourceHealth.update only.
C36_FirstWriteIsClean ==
  (\A p \in Slots : runId[p] <= 1) => C36_RecordReflectsLatestScan

-----------------------------------------------------------------------------
(* deduplicateItems: order and idempotence (lines 618-683) *)

\* The strictly increasing maps of the positions of out into those of items
\* that carry each element of out to an equal element of items.
Embeddings(out, items) ==
  { f \in [1..Len(out) -> 1..Len(items)] :
      /\ \A k \in 1..Len(out) : items[f[k]] = out[k]
      /\ \A k \in 1..(Len(out) - 1) : f[k] < f[k + 1] }

\* The first position of items that holds the title key of item.
FirstOfTitle(items, item) ==
  CHOOSE i \in 1..Len(items) :
    /\ SameTitle(items[i], item)
    /\ \A j \in 1..(i - 1) : ~SameTitle(items[j], item)

\* The item at position j repeats the non-empty URL key of an item before it.
RepeatsEarlierUrl(items, j) == \E m \in 1..(j - 1) : SameUrl(items[m], items[j])

-----------------------------------------------------------------------------
(* The scan handler: which updates are analysed (lines 1120-1167, 1229-1234) *)

\* The second InvokeLLM call has been made for update i of slot p.
AnalysisCalled(p, i) ==
  \/ analysisResults[p][i] = "pending"
  \/ \E k \in 1..Len(analysisOrder[p]) : analysisOrder[p][k] = i

\* Update j of slot p has been through the save loop: it has its record, or an
\* entry of errors says why it has none.
Handled(p, j) ==
  \/ \E i \in 1..Len(savedUpdates[p]) : FirstPos(p, savedUpdates[p][i]) = j
  \/ \E k \in 1..Len(errors[p]) :
       /\ errors[p][k].about = j
       /\ errors[p][k].kind \in {"skipped duplicate", "failed to save"}

\* C38: the second InvokeLLM call is made for exactly the updates whose type is
\* Ruling or Enforcement; an update whose analysis is null, because no call was
\* made or because the call threw, goes through the save loop like the others,
\* and its record says it is no court decision or enforcement and has empty
\* analysis fields.
C38_AnalysisOnlyForRulingsAndEnforcements ==
  \A p \in Slots :
    /\ \A i \in 1..Len(analysisResults[p]) :
         AnalysisCalled(p, i) <=> updates[p][i].update_type \in {"Ruling", "Enforcement"}
    /\ pc[p] = "persist" =>
         /\ \A j \in 1..(idx[p] - 1) : Handled(p, j)
         /\ \A i \in 1..Len(savedUpdates[p]) :
              analysisResults[p][FirstPos(p, savedUpdates[p][i])] = "null" =>
                /\ ~savedUpdates[p][i].is_court_decision_or_enforcement
                /\ savedUpdates[p][i].involved_parties = <<>>
                /\ savedUpdates[p][i].enforcement_type = ""

\* A Ruling whose analysis threw, an update of another type and an analysed
\* Enforcement: three records, the first two without analysis.
C38_Witness ==
  /\ env = "analyses"
  /\ pc[1] = "persist"
  /\ idx[1] = 4
  /\ updates[1][1].update_type = "Ruling"
  /\ updates[1][2].update_type = "Regulatory"
  /\ updates[1][3].update_type = "Enforcement"
  /\ analysisResults[1] = <<"null", "null", "analysed">>
  /\ analysisOrder[1] = <<3, 1>>
  /\ Len(savedUpdates[1]) = 3
  /\ ~savedUpdates[1][1].is_court_decision_or_enforcement
  /\ savedUpdates[1][2].enforcement_type = ""
  /\ savedUpdates[1][3].is_court_decision_or_enforcement

-----------------------------------------------------------------------------
(* learnFromFeedback (src/functions/learnFromFeedback.ts, lines 1-272) *)
(* The handler's request and locals are held in fnIn and fnOut, the           *)
(* RelevanceRule store is ruleStore, runs counts the requests.               *)

MaxRequests == 2          \* feedback requests handled one after the other
MaxKeywords == 2          \* keywords in one list of a request or of an answer

\* Keywords and topics as the user or the model writes them.
Words == { <<"A">>, <<"a">>, <<"b">> }

\* The answers of InvokeLLM: keyword, topic and title lists and a confidence
\* (in hundredths; absent when the answer has none).
LearnAnswers ==
  [keywords : { q \in SeqsUpTo(Words, MaxKeywords) : Len(q) < 2 \/ q[1] # q[2] },
   topics : { <<>>, << <<"a">> >> },
   titles : { <<>>, << <<"A">> >> },
   confidence : {AbsentNum}]
    \cup [keywords : { << <<"A">> >> }, topics : { <<>> }, titles : { <<>> },
          confidence : {90}]

\* The request bodies: the verdict and the keywords the user gave.
LearnRequests ==
  [isRelevant : {FALSE}, includeKeywords : { <<>> }]
    \cup [isRelevant : {TRUE}, includeKeywords : { <<>>, << <<"A">> >> }]

\* lines 19-27, 54-76, 184-220: one element of rulesToCreate
LearnedRule(type, word, score) ==
  [rule_type |-> type, pattern |-> ToLowerCase(word), accuracy_score |-> score,
   derived_from_feedback_count |-> AbsentNum]

\* patterns.confidence || 0.7, in hundredths
Confidence(answer) == IF answer.confidence \in {AbsentNum, 0} THEN 70 ELSE answer.confidence

\* lines 15-76 and 179-220: rulesToCreate. For a relevant article the user's
\* keywords, then the model's keywords and topics; for an irrelevant one the
\* model's topics, keywords and title patterns.
RulesToCreate(request, answer) ==
  LET rulesOf(type, words, score) ==
        [k \in 1..Len(words) |-> LearnedRule(type, words[k], score)]
  IN  IF request.isRelevant
        THEN rulesOf("include_keyword", request.includeKeywords, 80)
               \o rulesOf("include_keyword", answer.keywords, Confidence(answer))
               \o rulesOf("include_topic", answer.topics, Confidence(answer))
        ELSE rulesOf("exclude_topic", answer.topics, Confidence(answer))
               \o rulesOf("exclude_keyword", answer.keywords, Confidence(answer))
               \o rulesOf("exclude_title_pattern", answer.titles, Confidence(answer))

MutExistingRules(store, rule) ==
  { i \in 1..Len(store) : store[i].pattern = rule.pattern }

\* lines 84-87 and 227-230: RelevanceRule.filter({ rule_type, pattern }), as
\* the ids of the records found
ExistingRules(store, rule) ==
  { i \in 1..Len(store) :
      store[i].rule_type = rule.rule_type /\ store[i].pattern = rule.pattern }

\* lines 90-93 and 235-238: the patch of RelevanceRule.update
Reinforced(existing) ==
  [existing EXCEPT
     !.derived_from_feedback_count =
        (IF @ \in {AbsentNum, 0} THEN 1 ELSE @) + 1,
     !.accuracy_score =
        LET raised == (IF @ \in {AbsentNum, 0} THEN 70 ELSE @) + 5
        IN  IF raised > 100 THEN 100 ELSE raised]

\* The responses of the handler.
LearnResponse(status, created, updated) ==
  [status |-> status, rules_created |-> created, rules_updated |-> updated,
   patterns_learned |-> IF status = 200 THEN created + updated ELSE AbsentNum]

\* The scan handler's variables other than the rule store, the request count
\* and the fault count stay as they are.
LearnFrame ==
  /\ UNCHANGED <<pc, allItems, feedContent, relevanceRules, updates, existingTitlesForSave,
                 existingUrlsForSave, savedTitlesThisBatch, savedUrlsThisBatch, idx, errors,
                 response, updateStore, pendingRuleUpdates, runId, knownAtStart, requeryLen,
                 savedUpdates, createdBy, queryFailed>>
  /\ UNCHANGED <<taskVars, healthVars, fetchVars, dedupeVars, env>>

\* lines 3-76 and 118-220: a request arrives; without a user the answer is 401;
\* otherwise the model is asked (ok = FALSE when InvokeLLM throws, which the
\* catch of lines 268-271 turns into a 500) and rulesToCreate is built.
LearnStart(user, request, answer, ok) ==
  /\ fnpc = "idle"
  /\ runs < MaxRequests
  /\ runs' = runs + 1
  /\ IF ~user
       THEN /\ ok /\ UNCHANGED faults
            /\ fnIn' = [request |-> request, answer |-> answer, rulesToCreate |-> <<>>]
            /\ fnOut' = [i |-> 1, response |-> LearnResponse(401, AbsentNum, AbsentNum)]
            /\ fnpc' = "idle"
     ELSE /\ Call(ok)
          /\ fnIn' = [request |-> request, answer |-> answer,
                      rulesToCreate |-> IF ok THEN RulesToCreate(request, answer) ELSE <<>>]
          /\ IF ok
               THEN /\ fnOut' = [i |-> 1, response |-> LearnResponse(0, 0, 0)]
                    /\ fnpc' = "save"
               ELSE /\ fnOut' = [i |-> 1, response |-> LearnResponse(500, AbsentNum, AbsentNum)]
                    /\ fnpc' = "idle"
  /\ UNCHANGED ruleStore
  /\ LearnFrame

\* lines 81-99 and 225-244: one iteration of the save loop; ok = FALSE when
\* the store call throws, which ends the request with a 500
LearnSaveRule(ok) ==
  LET rule == fnIn.rulesToCreate[fnOut.i]
      existingRules == ExistingRules(ruleStore, rule)
      existing == CHOOSE i \in existingRules : \A j \in existingRules : i <= j
      sofar == fnOut.response
  IN
  /\ fnpc = "save"
  /\ fnOut.i <= Len(fnIn.rulesToCreate)
  /\ Call(ok)
  /\ IF ~ok
       THEN /\ fnOut' = [fnOut EXCEPT !.response = LearnResponse(500, AbsentNum, AbsentNum)]
            /\ fnpc' = "idle"
            /\ UNCHANGED ruleStore
     ELSE IF existingRules # {}
       THEN /\ ruleStore' = [ruleStore EXCEPT ![existing] = Reinforced(@)]
            /\ fnOut' = [i |-> fnOut.i + 1,
                         response |-> LearnResponse(0, sofar.rules_created,
                                                    sofar.rules_updated + 1)]
            /\ fnpc' = "save"
     ELSE /\ ruleStore' = Append(ruleStore, rule)
          /\ fnOut' = [i |-> fnOut.i + 1,
                       response |-> LearnResponse(0, sofar.rules_created + 1,
                                                  sofar.rules_updated)]
          /\ fnpc' = "save"
  /\ UNCHANGED <<fnIn, runs>>
  /\ LearnFrame

\* lines 101-115 and 246-266: the feedback record is updated (and, for an
\* irrelevant article, the update resolved), then the response is sent;
\* ok = FALSE when one of those calls throws
LearnFinish(ok) ==
  /\ fnpc = "save"
  /\ fnOut.i > Len(fnIn.rulesToCreate)
  /\ Call(ok)
  /\ fnOut' = [fnOut EXCEPT !.response =
                 IF ok THEN LearnResponse(200, @.rules_created, @.rules_updated)
                       ELSE LearnResponse(500, AbsentNum, AbsentNum)]
  /\ fnpc' = "idle"
  /\ UNCHANGED <<fnIn, runs, ruleStore>>
  /\ LearnFrame

LearnRequest ==
  \E user \in BOOLEAN, request \in LearnRequests, answer \in LearnAnswers, ok \in BOOLEAN :
    LearnStart(user, request, answer, ok)

LearnSave == \E ok \in BOOLEAN : LearnSaveRule(ok)

LearnRespond == \E ok \in BOOLEAN : LearnFinish(ok)

InitLearn ==
  /\ FetchIdle
  /\ DedupeIdle
  /\ HealthIdle
  /\ ScanIdle
  /\ FnIdle

NextLearn == LearnRequest \/ LearnSave \/ LearnRespond

\* Feedback requests handled one at a time.
SpecLearn == InitLearn /\ [][NextLearn]_vars

\* The patterns the request brings: the lists the handler reads for its verdict.
PatternsOf(request, answer) ==
  IF request.isRelevant
    THEN Len(request.includeKeywords) + Len(answer.keywords) + Len(answer.topics)
    ELSE Len(answer.topics) + Len(answer.keywords) + Len(answer.titles)

\* The rules of the store with the type and the pattern of the rule.
SamePair(store, rule) ==
  { i \in 1..Len(store) :
      store[i].rule_type = rule.rule_type /\ store[i].pattern = rule.pattern }

\* derived_from_feedback_count, a rule without one counting as 1
FeedbackCount(rule) ==
  IF rule.derived_from_feedback_count = AbsentNum THEN 1 ELSE rule.derived_from_feedback_count

\* C39: with requests handled one at a time the store never holds two rules
\* with the same rule_type and pattern; an iteration of the save loop whose
\* pattern is in the store, from an earlier request or from earlier in the
\* same one, raises that rule's derived_from_feedback_count by one and adds no
\* rule, one whose pattern is not adds the rule; a success response reports
\* rules_created + rules_updated equal to the number of patterns of the request.
C39_OneRulePerTypeAndPattern ==
  [][/\ \A i, j \in 1..Len(ruleStore') :
          (/\ ruleStore'[i].rule_type = ruleStore'[j].rule_type
           /\ ruleStore'[i].pattern = ruleStore'[j].pattern) => i = j
     /\ (fnpc = "save" /\ fnpc' = "save") =>
          LET rule == fnIn.rulesToCreate[fnOut.i]
              same == SamePair(ruleStore, rule)
          IN  IF same # {}
                THEN /\ Len(ruleStore') = Len(ruleStore)
                     /\ \A i \in 1..Len(ruleStore) :
                          FeedbackCount(ruleStore'[i]) =
                            FeedbackCount(ruleStore[i]) + (IF i \in same THEN 1 ELSE 0)
                     /\ fnOut'.response.rules_updated = fnOut.response.rules_updated + 1
                     /\ fnOut'.response.rules_created = fnOut.response.rules_created
                ELSE /\ Len(ruleStore') = Len(ruleStore) + 1
                     /\ SubSeq(ruleStore', 1, Len(ruleStore)) = ruleStore
                     /\ SamePair(ruleStore', rule) = {Len(ruleStore')}
                     /\ fnOut'.response.rules_created = fnOut.response.rules_created + 1
                     /\ fnOut'.response.rules_updated = fnOut.response.rules_updated
     /\ (fnpc = "save" /\ fnOut'.response.status = 200) =>
          /\ fnOut'.response.rules_created + fnOut'.response.rules_updated
               = PatternsOf(fnIn.request, fnIn.answer)
          /\ fnOut'.response.patterns_learned = PatternsOf(fnIn.request, fnIn.answer)]_vars

\* The second request brought twice a keyword the first had stored in another
\* case: the one rule has been reinforced twice and nothing was created.
C39_Witness ==
  /\ runs = 2
  /\ fnpc = "idle"
  /\ ~fnIn.request.isRelevant
  /\ fnIn.answer.keywords = << <<"A">>, <<"a">> >>
  /\ fnIn.answer.topics = <<>>
  /\ fnIn.answer.titles = <<>>
  /\ fnOut.response = LearnResponse(200, 0, 2)
  /\ Len(ruleStore) = 1
  /\ ruleStore[1].rule_type = "exclude_keyword"
  /\ ruleStore[1].pattern = <<"a">>
  /\ ruleStore[1].derived_from_feedback_count = 3

-----------------------------------------------------------------------------
(* The notification handler (src/functions/learnFromFeedback.ts, lines 493-647) *)
(* The request and the NotificationPreferences store are held in fnIn, the      *)
(* handler's locals and what it has created and sent in fnOut.                 *)

NullNum == 0 - 2          \* a numeric field that is null

\* Hours of the day that quiet hours start or end at, and hours at which the
\* handler runs.
WindowHours == {0, 6, 22}
ClockHours == {0, 5, 6, 21, 22, 23}

\* lines 533-541: the preferences of a user without a record
DefaultPrefs ==
  [email_enabled |-> TRUE, in_app_enabled |-> TRUE, high_risk_updates |-> TRUE,
   new_regulations |-> FALSE, email_frequency |-> "immediate",
   quiet_hours_start |-> AbsentNum, quiet_hours_end |-> AbsentNum]

\* The records the NotificationPreferences store can hold for a user.
StoredPrefs ==
  [email_enabled : BOOLEAN, in_app_enabled : BOOLEAN, high_risk_updates : BOOLEAN,
   new_regulations : {FALSE}, email_frequency : {"immediate", "daily"},
   quiet_hours_start : WindowHours \cup {NullNum},
   quiet_hours_end : WindowHours \cup {NullNum}]

\* The users; only the first has a record of preferences.
Users == <<"u1", "u2">>

\* The request bodies.
Payloads ==
  [type : {"high_risk_update", "system"}, priority : {"critical", "high"},
   send_email : BOOLEAN, recipient_email : {AbsentStr, "u1"},
   recipient_emails : { <<>>, <<"u2", "u1">>, <<"u1", "u1">> }]

\* lines 509-519: the recipients of the request
Recipients(payload, users) ==
  IF payload.recipient_email # AbsentStr THEN <<payload.recipient_email>>
  ELSE IF Len(payload.recipient_emails) > 0 THEN payload.recipient_emails
  ELSE users

\* lines 543-553: the user has not switched this type of notification off
TypeEnabled(prefs, type) ==
  CASE type = "system" -> TRUE
    [] type = "high_risk_update" -> prefs.high_risk_updates
    [] type = "new_regulation" -> prefs.new_regulations
    [] OTHER -> FALSE

\* a < b and a >= b as JavaScript evaluates them when a or b may be undefined
Less(a, b) == a # AbsentNum /\ b # AbsentNum /\ a < b
AtLeast(a, b) == a # AbsentNum /\ b # AbsentNum /\ a >= b

MutInQuietHours(prefs, currentHour) ==
  /\ prefs.quiet_hours_start # NullNum
  /\ prefs.quiet_hours_end # NullNum
  /\ AtLeast(currentHour, prefs.quiet_hours_start)
  /\ Less(currentHour, prefs.quiet_hours_end)

\* lines 558-566: inQuietHours, false when the block is not entered
InQuietHours(prefs, currentHour) ==
  LET start == prefs.quiet_hours_start
      end == prefs.quiet_hours_end
  IN  /\ start # NullNum
      /\ end # NullNum
      /\ IF Less(start, end)
           THEN AtLeast(currentHour, start) /\ Less(currentHour, end)
           ELSE AtLeast(currentHour, start) \/ Less(currentHour, end)

\* lines 568-571: prefs.email_enabled after the quiet hours check
EmailEnabled(prefs, currentHour, priority) ==
  IF InQuietHours(prefs, currentHour) /\ priority # "critical" THEN FALSE
  ELSE prefs.email_enabled

NotifyFrame ==
  UNCHANGED <<scanVars, healthVars, fetchVars, dedupeVars, env>>

\* lines 493-526: the request arrives and its recipients are determined
NotifyStart ==
  /\ fnpc = "call"
  /\ fnOut' = [recipients |-> Recipients(fnIn.payload, Users), i |-> 1,
               notifications_created |-> 0, emails_sent |-> 0, errors |-> 0,
               log |-> <<>>, status |-> 0]
  /\ fnpc' = "loop"
  /\ UNCHANGED fnIn
  /\ NotifyFrame

\* lines 528-632: one iteration of the loop over the recipients, at the hour
\* currentHour; thrown names the call that throws, if one does. The catch of
\* line 630 ends the iteration with an entry in errors.
NotifyOne(currentHour, thrown) ==
  LET email == fnOut.recipients[fnOut.i]
      prefs == IF email \in DOMAIN fnIn.prefsStore THEN fnIn.prefsStore[email] ELSE DefaultPrefs
      payload == fnIn.payload
      reached == thrown # "prefs" /\ TypeEnabled(prefs, payload.type)
      creates == reached /\ prefs.in_app_enabled
      created == creates /\ thrown # "create"
      sends == /\ reached
               /\ ~(creates /\ thrown = "create")
               /\ payload.send_email
               /\ EmailEnabled(prefs, currentHour, payload.priority)
               /\ prefs.email_frequency = "immediate"
      emailed == sends /\ thrown # "email"
      failed == \/ thrown = "prefs"
                \/ creates /\ thrown = "create"
                \/ sends /\ thrown = "email"
  IN
  /\ fnpc = "loop"
  /\ fnOut.i <= Len(fnOut.recipients)
  /\ thrown = "none" \/ failed
  /\ fnOut' = [fnOut EXCEPT
       !.i = @ + 1,
       !.notifications_created = IF created THEN @ + 1 ELSE @,
       !.emails_sent = IF emailed THEN @ + 1 ELSE @,
       !.errors = IF failed THEN @ + 1 ELSE @,
       !.log = Append(@, [email |-> email, prefs |-> prefs, hour |-> currentHour,
                          created |-> created, emailed |-> emailed, failed |-> failed])]
  /\ fnpc' = "loop"
  /\ UNCHANGED fnIn
  /\ NotifyFrame

\* lines 634-637: the response
NotifyRespond ==
  /\ fnpc = "loop"
  /\ fnOut.i > Len(fnOut.recipients)
  /\ fnOut' = [fnOut EXCEPT !.status = 200]
  /\ fnpc' = "done"
  /\ UNCHANGED fnIn
  /\ NotifyFrame

NotifyStep ==
  \E currentHour \in ClockHours, thrown \in {"none", "prefs", "create", "email"} :
    NotifyOne(currentHour, thrown)

InitNotify ==
  /\ FetchIdle
  /\ DedupeIdle
  /\ HealthIdle
  /\ ScanIdle
  /\ fnpc = "call"
  /\ fnIn \in [payload : Payloads, prefsStore : [{"u1"} -> StoredPrefs] \cup { <<>> }]
  /\ fnOut = <<>>

NextNotify == NotifyStart \/ NotifyStep \/ NotifyRespond

SpecNotify == InitNotify /\ [][NextNotify]_vars

\* The hour lies in the window [start, end), which wraps midnight when
\* start > end.
InWindow(hour, start, end) ==
  /\ start \in 0..23
  /\ end \in 0..23
  /\ \/ start < end /\ hour >= start /\ hour < end
     \/ start > end /\ (hour >= start \/ hour < end)

\* The entry of the log is about a recipient handled inside the quiet hours of
\* their preferences, no call having thrown.
InsideQuietHours(entry) ==
  /\ ~entry.failed
  /\ InWindow(entry.hour, entry.prefs.quiet_hours_start, entry.prefs.quiet_hours_end)

\* What the claim says of such a recipient.
QuietHoursRespected(entry) ==
  IF fnIn.payload.priority # "critical"
    THEN /\ ~entry.emailed
         /\ entry.prefs.in_app_enabled => entry.created
    ELSE entry.emailed <=> (/\ fnIn.payload.send_email
                            /\ entry.prefs.email_enabled
                            /\ entry.prefs.email_frequency = "immediate")

\* C40 as stated: for every recipient handled inside their quiet hours, a
\* notification that is not critical is not emailed and is created in-app when
\* in-app is enabled, and a critical one is emailed as it would be outside.
C40_QuietHoursForEveryRecipient ==
  fnpc \in {"loop", "done"} =>
    \A k \in 1..Len(fnOut.log) :
      InsideQuietHours(fnOut.log[k]) => QuietHoursRespected(fnOut.log[k])

\* C40, amended: the same for every recipient whose preferences enable the
\* type of the notification; a recipient who has switched the type off gets
\* neither the in-app notification nor the email.
C40_QuietHoursWhenTypeEnabled ==
  fnpc \in {"loop", "done"} =>
    \A k \in 1..Len(fnOut.log) :
      LET entry == fnOut.log[k]
          enabled == \/ fnIn.payload.type = "system"
                     \/ /\ fnIn.payload.type = "high_risk_update"
                        /\ entry.prefs.high_risk_updates
      IN  InsideQuietHours(entry) =>
            IF enabled THEN QuietHoursRespected(entry)
                       ELSE ~entry.created /\ ~entry.emailed

\* At 23 h, inside the window from 22 h to 6 h, a high-priority notification
\* was created in-app and not emailed, for a recipient whose email is enabled.
C40_Witness ==
  /\ fnpc = "done"
  /\ fnIn.payload.priority = "high"
  /\ fnIn.payload.send_email
  /\ Len(fnOut.log) = 1
  /\ fnOut.log[1].hour = 23
  /\ fnOut.log[1].prefs.quiet_hours_start = 22
  /\ fnOut.log[1].prefs.quiet_hours_end = 6
  /\ fnOut.log[1].prefs.email_enabled
  /\ fnOut.log[1].prefs.email_frequency = "immediate"
  /\ fnOut.log[1].prefs.high_risk_updates
  /\ fnOut.log[1].created
  /\ ~fnOut.log[1].emailed
  /\ fnOut.notifications_created = 1
  /\ fnOut.emails_sent = 0
====
